---- MODULE Spec2Model ----
(***************************************************************************)
(* The grammar validation engine of CFG QODER: the tokenizer, the grammar  *)
(* model, the chart recognizer, the parse tree builder, the diagnostic     *)
(* analyzer, validate_request and the two callers that feed it (the        *)
(* /api/validate endpoint and the ValidationForm of the frontend).         *)
(*                                                                         *)
(* A string is a sequence of one-character strings; a token is such a      *)
(* sequence too.                                                           *)
(***************************************************************************)
EXTENDS Naturals, Sequences, FiniteSets, TLC

VARIABLES pc, candidate, configError, grammar, request, result, prev,
          batch, batchResponse, run, validationLogs, nextId, localStorage,
          validationForm, history, api

\* The state of the engine and of a single call
engineVars == <<pc, candidate, configError, grammar, request, result, prev>>
\* The state of a batch call
batchVars == <<batch, batchResponse>>
\* The progress of a call of validate through its steps
runVars == <<run>>
\* The state of the ValidationProvider
providerVars == <<validationLogs, nextId, localStorage>>
\* The state of the ValidationForm, and what has happened to it
formVars == <<validationForm, history>>
\* The state of the frontend
frontVars == <<providerVars, formVars>>
\* The state of the APIProvider
apiVars == <<api>>
\* The state outside the engine and the single call
aside == <<batchVars, runVars, frontVars, apiVars>>

vars == <<engineVars, aside>>

(***************************************************************************)
(* Bounds of the model.                                                    *)
(***************************************************************************)
\* Tree building is followed down to the depth MaxDepth.
MaxDepth == 6
\* The validations one form has in flight at most
MaxInFlight == 2
\* The operations of the user (validate, add sample data, clear) in a session
MaxOps == 2
\* The API calls in flight at most, and the calls of API functions in a session
MaxApiCalls == 2
MaxApiStarted == 4
\* The reloads of the page in a session
MaxReloads == 1
\* The runs of addSampleData and the invalid validations in a saved log
MaxSampleRuns == 3
MaxSavedInvalid == 8
\* Every string over Chars of at most MaxLen characters is an input line.
MaxLen == 3
\* Lines of the determinism specification (SpecIdem) have at most MaxIdemLen characters.
MaxIdemLen == 2
\* datetime.now() answers one of 1..MaxTime.
MaxTime == 2

(***************************************************************************)
(* Characters and strings.                                                 *)
(***************************************************************************)
SPACE == " "
TAB == "\t"

\* The characters input lines are built from: two non-space characters, the
\* space and the tab.
Chars == {"A", "B", SPACE, TAB}

\* The characters Python's \s and str.strip(), and JavaScript's trim(), treat
\* as whitespace.
Whitespace == {SPACE, TAB, "\n", "\r"}

\* All strings over S of length at most n.
StringsUpTo(S, n) == UNION {[1..k -> S] : k \in 0..n}

\* request_line.strip(): drop the leading whitespace
RECURSIVE LStrip(_)
LStrip(s) ==
    IF s # <<>> /\ Head(s) \in Whitespace THEN LStrip(Tail(s)) ELSE s

\* request_line.strip(): drop the trailing whitespace
RECURSIVE RStrip(_)
RStrip(s) ==
    IF s # <<>> /\ s[Len(s)] \in Whitespace
    THEN RStrip(SubSeq(s, 1, Len(s) - 1))
    ELSE s

\* str.strip() of Python, String.prototype.trim() of JavaScript
Strip(s) == RStrip(LStrip(s))

\* re.sub(r'\s+', ' ', s): every maximal run of whitespace becomes one space
RECURSIVE ReSubWhitespace(_)
ReSubWhitespace(s) ==
    IF s = <<>> THEN <<>>
    ELSE IF Head(s) \in Whitespace
         THEN <<SPACE>> \o ReSubWhitespace(LStrip(s))
         ELSE <<Head(s)>> \o ReSubWhitespace(Tail(s))

\* The loop of a tokenizer that drops the separators instead of emitting them
\* as tokens, as str.split() does.
RECURSIVE TokenizeLoopNoSeparators(_, _, _, _)
TokenizeLoopNoSeparators(normalized, i, tokens, current_token) ==
    IF i > Len(normalized)
    THEN IF current_token # <<>> THEN Append(tokens, current_token) ELSE tokens
    ELSE IF normalized[i] = SPACE
         THEN TokenizeLoopNoSeparators(normalized, i + 1,
                  IF current_token # <<>>
                  THEN Append(tokens, current_token)
                  ELSE tokens,
                  <<>>)
         ELSE TokenizeLoopNoSeparators(normalized, i + 1, tokens,
                  Append(current_token, normalized[i]))

\* The loop of tokenize_request over the characters of `normalized`, from
\* position i, with the tokens emitted so far and the token being built.
RECURSIVE TokenizeLoop(_, _, _, _)
TokenizeLoop(normalized, i, tokens, current_token) ==
    IF i > Len(normalized)
    THEN IF current_token # <<>> THEN Append(tokens, current_token) ELSE tokens
    ELSE IF normalized[i] = SPACE
         THEN TokenizeLoop(normalized, i + 1,
                  Append(IF current_token # <<>>
                         THEN Append(tokens, current_token)
                         ELSE tokens,
                         <<SPACE>>),
                  <<>>)
         ELSE TokenizeLoop(normalized, i + 1, tokens,
                  Append(current_token, normalized[i]))

\* A tokenizer that splits on spaces without normalising first (no strip, no
\* collapsing of whitespace runs).
tokenize_request_raw(request_line) ==
    TokenizeLoop(request_line, 1, <<>>, <<>>)

\* HTTPRequestCFGParser.tokenize_request
tokenize_request(request_line) ==
    TokenizeLoop(ReSubWhitespace(Strip(request_line)), 1, <<>>, <<>>)

(***************************************************************************)
(* Grammar model: symbols, productions, grammars.                          *)
(***************************************************************************)
\* Symbol: the tagged variant Terminal(text) | NonTerminal(name)
T(text) == [kind |-> "T", name |-> "", text |-> text]
NT(name) == [kind |-> "NT", name |-> name, text |-> <<>>]

\* Production: head and ordered body (the empty body is an epsilon rule)
Production(head, body) == [head |-> head, body |-> body]

\* A grammar as handed to load_grammar: ordered (head, body) pairs and a start
Rules(start, productions) == [start |-> start, productions |-> productions]

\* The heads of a production list
Heads(productions) == {productions[p].head : p \in 1..Len(productions)}

\* The NonTerminals referenced in the bodies of a production list
Referenced(productions) ==
    UNION {{productions[p].body[r].name :
                r \in {r \in 1..Len(productions[p].body) :
                          productions[p].body[r].kind = "NT"}} :
           p \in 1..Len(productions)}

NoGrammar == [start |-> "", productions |-> <<>>]
NoError == [category |-> "None", detail |-> ""]

\* load_grammar without the duplicate-rule check.
load_grammar_no_duplicate_check(rules) ==
    IF rules.start \notin Heads(rules.productions)
    THEN [ok |-> FALSE, grammar |-> NoGrammar,
          error |-> [category |-> "GrammarConfigurationError",
                     detail |-> "undefined start symbol"]]
    ELSE IF \E n \in Referenced(rules.productions) : n \notin Heads(rules.productions)
    THEN [ok |-> FALSE, grammar |-> NoGrammar,
          error |-> [category |-> "GrammarConfigurationError",
                     detail |-> "missing symbol"]]
    ELSE [ok |-> TRUE, grammar |-> rules, error |-> NoError]

\* load_grammar(production_rules, start) -> Grammar | GrammarConfigurationError
load_grammar(rules) ==
    IF rules.start \notin Heads(rules.productions)
    THEN [ok |-> FALSE, grammar |-> NoGrammar,
          error |-> [category |-> "GrammarConfigurationError",
                     detail |-> "undefined start symbol"]]
    ELSE IF \E n \in Referenced(rules.productions) : n \notin Heads(rules.productions)
    THEN [ok |-> FALSE, grammar |-> NoGrammar,
          error |-> [category |-> "GrammarConfigurationError",
                     detail |-> "missing symbol"]]
    ELSE IF \E p, q \in 1..Len(rules.productions) :
                p < q /\ rules.productions[p] = rules.productions[q]
    THEN [ok |-> FALSE, grammar |-> NoGrammar,
          error |-> [category |-> "GrammarConfigurationError",
                     detail |-> "duplicate rule"]]
    ELSE [ok |-> TRUE, grammar |-> rules, error |-> NoError]

(***************************************************************************)
(* Chart recognizer.  A chart is the set of justifications                 *)
(* [head, lo, hi, prod, cuts]: production number prod of the grammar, with *)
(* head `head`, derives the tokens of the span [lo, hi), its r-th body     *)
(* symbol over [cuts[r], cuts[r+1]).                                       *)
(***************************************************************************)
\* ChartCell lookup: is NonTerminal n recorded over [i, j)?
Recorded(chart, n, i, j) ==
    \E e \in chart : e.head = n /\ e.lo = i /\ e.hi = j

\* Is symbol sym proven over [i, j)?  A terminal matches one token by exact
\* text equality; a NonTerminal is looked up in the chart.
SymbolOver(chart, tokens, sym, i, j) ==
    IF sym.kind = "T"
    THEN j = i + 1 /\ j <= Len(tokens) /\ tokens[j] = sym.text
    ELSE Recorded(chart, sym.name, i, j)

\* The split points for the body symbols r.. over [k, hi): the sequences of
\* end points, one per symbol, with every symbol proven over its part.
RECURSIVE Splits(_, _, _, _, _, _)
Splits(chart, tokens, body, r, k, hi) ==
    IF r > Len(body)
    THEN IF k = hi THEN {<<>>} ELSE {}
    ELSE UNION {{<<k2>> \o rest : rest \in Splits(chart, tokens, body, r + 1, k2, hi)} :
                k2 \in {x \in k..hi : SymbolOver(chart, tokens, body[r], k, x)}}

\* One round of chart construction: every justification whose parts are
\* proven by the chart so far.
ChartStep(g, tokens, chart) ==
    UNION {{[head |-> g.productions[p].head, lo |-> lo, hi |-> hi, prod |-> p,
             cuts |-> <<lo>> \o c] :
                c \in Splits(chart, tokens, g.productions[p].body, 1, lo, hi)} :
           <<p, lo, hi>> \in {<<p, lo, hi>> \in
                (1..Len(g.productions)) \X (0..Len(tokens)) \X (0..Len(tokens)) :
                lo <= hi}}

RECURSIVE ChartFrom(_, _, _)
ChartFrom(g, tokens, chart) ==
    LET next == ChartStep(g, tokens, chart)
    IN  IF next = chart THEN chart ELSE ChartFrom(g, tokens, next)

\* The completed chart of the token sequence
Chart(g, tokens) == ChartFrom(g, tokens, {})

\* Recognition succeeds iff the start symbol is recorded over [0, n)
Recognized(g, tokens) == Recorded(Chart(g, tokens), g.start, 0, Len(tokens))

(***************************************************************************)
(* Parse tree builder.  ParseTree: [label, lo, hi, children]; the label of *)
(* a NonTerminal node is its name, the label of a terminal node the text   *)
(* of its token; children is empty for terminal nodes.                     *)
(***************************************************************************)
\* A NonTerminal's name as a label (a one-piece string)
Name(n) == <<n>>

\* The concatenation of a sequence of sequences
RECURSIVE Flatten(_)
Flatten(ss) == IF Len(ss) = 0 THEN <<>> ELSE Head(ss) \o Flatten(Tail(ss))

\* Lexicographic order of two sequences of numbers of the same length
LexLess(c, d) ==
    \E r \in 1..Len(c) : c[r] < d[r] /\ \A q \in 1..(r - 1) : c[q] = d[q]

\* Order of the justifications of one cell: by production, then by split points
JustLess(e, f) ==
    e.prod < f.prod \/ (e.prod = f.prod /\ LexLess(e.cuts, f.cuts))

RECURSIVE InOrder(_)
InOrder(S) ==
    IF S = {} THEN <<>>
    ELSE LET m == CHOOSE e \in S : \A f \in S \ {e} : JustLess(e, f)
         IN  <<m>> \o InOrder(S \ {m})

\* The justifications the chart holds for (n, [i, j)), in order
Justifications(chart, n, i, j) ==
    InOrder({e \in chart : e.head = n /\ e.lo = i /\ e.hi = j})

\* TreesOf: one tree per justification of (n, [i, j)) and per choice of the
\* children's trees.  ChildCombos: the choices of children for the body
\* symbols r.. of justification e.
RECURSIVE TreesOf(_, _, _, _, _, _)
RECURSIVE ChildCombos(_, _, _, _, _)
TreesOf(g, tokens, chart, n, i, j) ==
    LET J == Justifications(chart, n, i, j)
    IN  Flatten([x \in 1..Len(J) |->
            LET combos == ChildCombos(g, tokens, chart, J[x], 1)
            IN  [y \in 1..Len(combos) |->
                    [label |-> Name(n), lo |-> i, hi |-> j,
                     children |-> combos[y]]]])

ChildCombos(g, tokens, chart, e, r) ==
    LET body == g.productions[e.prod].body
    IN  IF r > Len(body) THEN << <<>> >>
        ELSE LET a == e.cuts[r]
                 b == e.cuts[r + 1]
                 firsts == IF body[r].kind = "T"
                           THEN << [label |-> tokens[b], lo |-> a, hi |-> b,
                                    children |-> <<>>] >>
                           ELSE TreesOf(g, tokens, chart, body[r].name, a, b)
                 rests == ChildCombos(g, tokens, chart, e, r + 1)
             IN  Flatten([x \in 1..Len(firsts) |->
                     [y \in 1..Len(rests) |-> <<firsts[x]>> \o rests[y]]])

\* build_trees(chart, grammar, tokens)
build_trees(chart, g, tokens) ==
    TreesOf(g, tokens, chart, g.start, 0, Len(tokens))

(***************************************************************************)
(* Diagnostic analyzer: the ranked policy over the partial chart.          *)
(***************************************************************************)
Diagnostic(category, lo, hi) == [category |-> category, lo |-> lo, hi |-> hi]

\* Does the token match the first position of some production of the start
\* symbol: the terminal there, or a length-1 production of the NonTerminal there?
EntryMatches(g, token) ==
    \E p \in 1..Len(g.productions) :
        /\ g.productions[p].head = g.start
        /\ Len(g.productions[p].body) > 0
        /\ LET first == g.productions[p].body[1]
           IN  IF first.kind = "T" THEN first.text = token
               ELSE \E q \in 1..Len(g.productions) :
                        /\ g.productions[q].head = first.name
                        /\ g.productions[q].body = <<T(token)>>

Min(S) == CHOOSE x \in S : \A y \in S : x <= y
Max(S) == CHOOSE x \in S : \A y \in S : x >= y

\* _analyze_parsing_errors(tokens)
analyze_parsing_errors(g, tokens, chart) ==
    LET n == Len(tokens)
        heads == Heads(g.productions)
        structural == n = 0 \/ ~EntryMatches(g, tokens[1])
        boundaries == {k \in 1..(n - 1) :
                          /\ \E h \in heads : Recorded(chart, h, 0, k)
                          /\ \E h \in heads : Recorded(chart, h, k, n)}
        covered == {m \in 1..(n - 1) : \E h \in heads : Recorded(chart, h, 0, m)}
        d1 == IF structural
              THEN <<Diagnostic("StructuralMismatch", 0, IF n = 0 THEN 0 ELSE 1)>>
              ELSE <<>>
        d2 == IF boundaries # {}
              THEN <<Diagnostic("MissingSeparator", Min(boundaries), Min(boundaries))>>
              ELSE <<>>
        d3 == IF covered # {}
              THEN <<Diagnostic("UnexpectedTrailingInput", Max(covered), n)>>
              ELSE <<>>
    IN  IF d1 \o d2 \o d3 = <<>>
        THEN <<Diagnostic("NoDerivation", 0, n)>>
        ELSE d1 \o d2 \o d3

(***************************************************************************)
(* validate_request.  The parser is the loaded grammar (NoGrammar: none);  *)
(* the recognizer never raises, so the except branch is not taken; the     *)
(* regex mode (use_regex) is off.                                          *)
(***************************************************************************)
\* self.parser.parse(tokens): every tree of the token sequence, none when the
\* start symbol is not recorded over the full span
parse(g, tokens) ==
    LET chart == Chart(g, tokens)
    IN  IF Recorded(chart, g.start, 0, Len(tokens))
        THEN build_trees(chart, g, tokens)
        ELSE <<>>

\* The result dictionary validate_request starts from
NewResult(parser, request_line, now) ==
    [is_valid |-> FALSE, request_line |-> request_line, tokens |-> <<>>,
     parse_trees |-> <<>>, errors |-> <<>>,
     grammar_rules |-> parser.productions, timestamp |-> now]

NoResult == [is_valid |-> FALSE]

\* A token sequence without its separator tokens, as str.split() gives it
RECURSIVE WithoutSeparators(_)
WithoutSeparators(tokens) ==
    IF tokens = <<>> THEN <<>>
    ELSE IF Head(tokens) = <<SPACE>> THEN WithoutSeparators(Tail(tokens))
         ELSE <<Head(tokens)>> \o WithoutSeparators(Tail(tokens))

\* validate_request setting is_valid whenever a parser exists.
validate_request_always_valid(parser, request_line, now) ==
    LET tokens == tokenize_request(request_line)
        parse_trees == parse(parser, tokens)
        res == [NewResult(parser, request_line, now) EXCEPT !.tokens = tokens]
    IN  IF parser = NoGrammar THEN res
        ELSE [res EXCEPT !.is_valid = TRUE, !.parse_trees = parse_trees]

\* validate_request parsing request_line.split() instead of its tokens.
validate_request_split(parser, request_line, now) ==
    LET tokens == tokenize_request(request_line)
        parse_trees == parse(parser, WithoutSeparators(tokens))
        res == [NewResult(parser, request_line, now) EXCEPT !.tokens = tokens]
    IN  IF parser = NoGrammar THEN res
        ELSE IF parse_trees # <<>>
        THEN [res EXCEPT !.is_valid = TRUE, !.parse_trees = parse_trees]
        ELSE [res EXCEPT !.errors =
                  analyze_parsing_errors(parser, tokens, Chart(parser, tokens))]

\* validate_request without the call of the error analysis.
validate_request_no_diagnosis(parser, request_line, now) ==
    LET tokens == tokenize_request(request_line)
        parse_trees == parse(parser, tokens)
        res == [NewResult(parser, request_line, now) EXCEPT !.tokens = tokens]
    IN  IF parser = NoGrammar THEN res
        ELSE IF parse_trees # <<>>
        THEN [res EXCEPT !.is_valid = TRUE, !.parse_trees = parse_trees]
        ELSE res

\* validate_request keeping only the first tree the parser yields.
validate_request_first_tree(parser, request_line, now) ==
    LET tokens == tokenize_request(request_line)
        parse_trees == parse(parser, tokens)
        res == [NewResult(parser, request_line, now) EXCEPT !.tokens = tokens]
    IN  IF parser = NoGrammar THEN res
        ELSE IF parse_trees # <<>>
        THEN [res EXCEPT !.is_valid = TRUE, !.parse_trees = <<parse_trees[1]>>]
        ELSE [res EXCEPT !.errors =
                  analyze_parsing_errors(parser, tokens, Chart(parser, tokens))]

\* validate_request answering a line it has seen before from a cache that
\* keeps the verdict and the diagnostics but not the trees.
validate_request_cached(parser, request_line, now) ==
    LET tokens == tokenize_request(request_line)
        parse_trees == parse(parser, tokens)
        res == [NewResult(parser, request_line, now) EXCEPT !.tokens = tokens]
    IN  IF parser = NoGrammar THEN res
        ELSE IF prev # NoResult /\ prev.request_line = request_line
        THEN [res EXCEPT !.is_valid = prev.is_valid, !.errors = prev.errors]
        ELSE IF parse_trees # <<>>
        THEN [res EXCEPT !.is_valid = TRUE, !.parse_trees = parse_trees]
        ELSE [res EXCEPT !.errors =
                  analyze_parsing_errors(parser, tokens, Chart(parser, tokens))]

\* validate_request accepting a line only when its parse is unique.
validate_request_unique_tree(parser, request_line, now) ==
    LET tokens == tokenize_request(request_line)
        parse_trees == parse(parser, tokens)
        res == [NewResult(parser, request_line, now) EXCEPT !.tokens = tokens]
    IN  IF parser = NoGrammar THEN res
        ELSE IF Len(parse_trees) = 1
        THEN [res EXCEPT !.is_valid = TRUE, !.parse_trees = parse_trees]
        ELSE [res EXCEPT !.errors =
                  analyze_parsing_errors(parser, tokens, Chart(parser, tokens))]

\* validate_request reporting every failure as a generic NoDerivation over
\* the whole input.
validate_request_generic_error(parser, request_line, now) ==
    LET tokens == tokenize_request(request_line)
        parse_trees == parse(parser, tokens)
        res == [NewResult(parser, request_line, now) EXCEPT !.tokens = tokens]
    IN  IF parser = NoGrammar THEN res
        ELSE IF parse_trees # <<>>
        THEN [res EXCEPT !.is_valid = TRUE, !.parse_trees = parse_trees]
        ELSE [res EXCEPT !.errors = <<Diagnostic("NoDerivation", 0, Len(tokens))>>]

\* The sequence in reverse order
RECURSIVE Reverse(_)
Reverse(q) == IF q = <<>> THEN <<>> ELSE Append(Reverse(Tail(q)), Head(q))

\* validate_request listing the diagnostics last found first.
validate_request_reversed_errors(parser, request_line, now) ==
    LET tokens == tokenize_request(request_line)
        parse_trees == parse(parser, tokens)
        res == [NewResult(parser, request_line, now) EXCEPT !.tokens = tokens]
    IN  IF parser = NoGrammar THEN res
        ELSE IF parse_trees # <<>>
        THEN [res EXCEPT !.is_valid = TRUE, !.parse_trees = parse_trees]
        ELSE [res EXCEPT !.errors =
                  Reverse(analyze_parsing_errors(parser, tokens,
                                                 Chart(parser, tokens)))]

\* The tree with every node that has a single childless child replaced by
\* that child
RECURSIVE CollapseUnary(_)
CollapseUnary(t) ==
    IF Len(t.children) = 1 /\ t.children[1].children = <<>>
    THEN t.children[1]
    ELSE [t EXCEPT !.children =
             [r \in 1..Len(t.children) |-> CollapseUnary(t.children[r])]]

\* validate_request returning trees in which a NonTerminal over one token is
\* given as that token's leaf.
validate_request_flat_trees(parser, request_line, now) ==
    LET tokens == tokenize_request(request_line)
        parse_trees == parse(parser, tokens)
        res == [NewResult(parser, request_line, now) EXCEPT !.tokens = tokens]
    IN  IF parser = NoGrammar THEN res
        ELSE IF parse_trees # <<>>
        THEN [res EXCEPT !.is_valid = TRUE,
                         !.parse_trees = [x \in 1..Len(parse_trees) |->
                                             CollapseUnary(parse_trees[x])]]
        ELSE [res EXCEPT !.errors =
                  analyze_parsing_errors(parser, tokens, Chart(parser, tokens))]

\* HTTPRequestCFGParser.validate_request
validate_request(parser, request_line, now) ==
    LET tokens == tokenize_request(request_line)
        parse_trees == parse(parser, tokens)
        res == [NewResult(parser, request_line, now) EXCEPT !.tokens = tokens]
    IN  IF parser = NoGrammar THEN res
        ELSE IF parse_trees # <<>>
        THEN [res EXCEPT !.is_valid = TRUE, !.parse_trees = parse_trees]
        ELSE [res EXCEPT !.errors =
                  analyze_parsing_errors(parser, tokens, Chart(parser, tokens))]

(***************************************************************************)
(* The grammars handed to load_grammar, and the input lines.               *)
(***************************************************************************)
GETText == <<"G", "E", "T">>
RootText == <<"/">>
IndexText == <<"/", "i", "n", "d", "e", "x", ".", "h", "t", "m", "l">>
AboutText == <<"/", "a", "b", "o", "u", "t", ".", "h", "t", "m", "l">>
ContactText == <<"/", "c", "o", "n", "t", "a", "c", "t", ".", "h", "t", "m", "l">>
StyleText == <<"/", "s", "t", "y", "l", "e", ".", "c", "s", "s">>
Http10Text == <<"H", "T", "T", "P", "/", "1", ".", "0">>
Http11Text == <<"H", "T", "T", "P", "/", "1", ".", "1">>
Http20Text == <<"H", "T", "T", "P", "/", "2", ".", "0">>

\* The project's grammar of the HTTP request line
HTTPGrammar ==
    Rules("RequestLine", <<
        Production("RequestLine", <<NT("GET"), NT("SP"), NT("RequestTarget"),
                                    NT("SP"), NT("HTTPVersion")>>),
        Production("RequestTarget", <<T(RootText)>>),
        Production("RequestTarget", <<T(IndexText)>>),
        Production("RequestTarget", <<T(AboutText)>>),
        Production("RequestTarget", <<T(ContactText)>>),
        Production("RequestTarget", <<T(StyleText)>>),
        Production("HTTPVersion", <<T(Http10Text)>>),
        Production("HTTPVersion", <<T(Http11Text)>>),
        Production("HTTPVersion", <<T(Http20Text)>>),
        Production("SP", <<T(<<SPACE>>)>>),
        Production("GET", <<T(GETText)>>) >>)

\* S -> "A" SP "B" with SP -> " "
ExampleGrammar ==
    Rules("S", <<
        Production("S", <<T(<<"A">>), NT("SP"), T(<<"B">>)>>),
        Production("SP", <<T(<<SPACE>>)>>) >>)

\* S -> W | W S with W -> "A" | "B" | " ": every non-empty sequence of these tokens
SequenceGrammar ==
    Rules("S", <<
        Production("S", <<NT("W")>>),
        Production("S", <<NT("W"), NT("S")>>),
        Production("W", <<T(<<"A">>)>>),
        Production("W", <<T(<<"B">>)>>),
        Production("W", <<T(<<SPACE>>)>>) >>)

\* S -> Opt Opt with Opt -> epsilon | "A": an epsilon rule, and two split
\* points for the input "A"
EpsilonGrammar ==
    Rules("S", <<
        Production("S", <<NT("Opt"), NT("Opt")>>),
        Production("Opt", <<>>),
        Production("Opt", <<T(<<"A">>)>>) >>)

\* S -> P SP P | P with P -> X | Y, X -> "A", Y -> "A": two derivations of
\* "A", four of "A A"
AmbiguousGrammar ==
    Rules("S", <<
        Production("S", <<NT("P"), NT("SP"), NT("P")>>),
        Production("S", <<NT("P")>>),
        Production("P", <<NT("X")>>),
        Production("P", <<NT("Y")>>),
        Production("X", <<T(<<"A">>)>>),
        Production("Y", <<T(<<"A">>)>>),
        Production("SP", <<T(<<SPACE>>)>>) >>)

\* S -> Head Tail | Other Rest Rest with Head -> "A" SP, Tail -> "B",
\* Other -> "A", Rest -> SP Other: spans on both sides of a token boundary can
\* be derivable without a production that joins them
SeparatorGrammar ==
    Rules("S", <<
        Production("S", <<NT("Head"), NT("Tail")>>),
        Production("S", <<NT("Other"), NT("Rest"), NT("Rest")>>),
        Production("Head", <<T(<<"A">>), NT("SP")>>),
        Production("Tail", <<T(<<"B">>)>>),
        Production("Other", <<T(<<"A">>)>>),
        Production("Rest", <<NT("SP"), NT("Other")>>),
        Production("SP", <<T(<<SPACE>>)>>) >>)

\* Start symbol without a production
UndefinedStartRules ==
    Rules("S", << Production("SP", <<T(<<SPACE>>)>>) >>)

\* A body referencing the undeclared NonTerminal SP
UnclosedRules ==
    Rules("S", << Production("S", <<T(<<"A">>), NT("SP"), T(<<"B">>)>>) >>)

\* The same (head, body) pair declared twice
DuplicateRules ==
    Rules("S", <<
        Production("S", <<T(<<"A">>)>>),
        Production("S", <<T(<<"B">>)>>),
        Production("S", <<T(<<"A">>)>>) >>)

\* S -> A with A -> B | "A" and B -> A: a cycle of unit productions
CyclicGrammar ==
    Rules("S", <<
        Production("S", <<NT("A")>>),
        Production("A", <<NT("B")>>),
        Production("A", <<T(<<"A">>)>>),
        Production("B", <<NT("A")>>) >>)

GrammarCandidates ==
    {HTTPGrammar, ExampleGrammar, SequenceGrammar, EpsilonGrammar,
     AmbiguousGrammar, SeparatorGrammar, UndefinedStartRules, UnclosedRules,
     DuplicateRules}

\* Request lines of the template library
ValidRootLine ==
    <<"G", "E", "T", SPACE, "/", SPACE, "H", "T", "T", "P", "/", "1", ".", "1">>
ValidIndexLine ==
    <<"G", "E", "T", SPACE, "/", "i", "n", "d", "e", "x", ".", "h", "t", "m", "l", SPACE, "H", "T", "T", "P", "/", "1", ".", "1">>
ExtraSpacesLine ==
    <<"G", "E", "T", SPACE, SPACE, "/", "i", "n", "d", "e", "x", ".", "h", "t", "m", "l", SPACE, SPACE, "H", "T", "T", "P", "/", "1", ".", "1">>
TabLine ==
    <<"G", "E", "T", TAB, "/", "i", "n", "d", "e", "x", ".", "h", "t", "m", "l", TAB, "H", "T", "T", "P", "/", "1", ".", "1">>
TrailingSpaceLine ==
    <<"G", "E", "T", SPACE, "/", "i", "n", "d", "e", "x", ".", "h", "t", "m", "l", SPACE, "H", "T", "T", "P", "/", "1", ".", "1", SPACE>>
LeadingSpaceLine ==
    <<SPACE, "G", "E", "T", SPACE, "/", "i", "n", "d", "e", "x", ".", "h", "t", "m", "l", SPACE, "H", "T", "T", "P", "/", "1", ".", "1">>

TemplateLines ==
    {ValidRootLine, ValidIndexLine, ExtraSpacesLine, TabLine,
     TrailingSpaceLine, LeadingSpaceLine}

\* Request lines of the invalid templates and of the setup guide
PostLine ==
    <<"P", "O", "S", "T", SPACE, "/", "i", "n", "d", "e", "x", ".", "h", "t", "m", "l", SPACE, "H", "T", "T", "P", "/", "1", ".", "1">>
LowercaseGetLine ==
    <<"g", "e", "t", SPACE, "/", "i", "n", "d", "e", "x", ".", "h", "t", "m", "l", SPACE, "H", "T", "T", "P", "/", "1", ".", "1">>
Http30Line ==
    <<"G", "E", "T", SPACE, "/", "i", "n", "d", "e", "x", ".", "h", "t", "m", "l", SPACE, "H", "T", "T", "P", "/", "3", ".", "0">>
PageLine ==
    <<"G", "E", "T", SPACE, "/", "p", "a", "g", "e", ".", "h", "t", "m", "l", SPACE, "H", "T", "T", "P", "/", "1", ".", "1">>
MissingVersionLine ==
    <<"G", "E", "T", SPACE, "/", "i", "n", "d", "e", "x", ".", "h", "t", "m", "l">>

InvalidTemplateLines ==
    {PostLine, LowercaseGetLine, Http30Line, PageLine, MissingVersionLine}

\* Whitespace variants of "A B", longer than MaxLen
VariantLines ==
    {<<"A", SPACE, SPACE, "B">>, <<SPACE, "A", SPACE, "B">>,
     <<"A", SPACE, "B", SPACE>>, <<"A", TAB, TAB, "B">>}

\* The input lines
Lines ==
    StringsUpTo(Chars, MaxLen) \cup VariantLines \cup TemplateLines
        \cup InvalidTemplateLines

\* The input lines of the determinism specification
IdemLines ==
    StringsUpTo({"A", SPACE}, MaxIdemLen) \cup {<<"A", SPACE, "B">>, ValidRootLine}

\* The answers of datetime.now()
Times == 1..MaxTime

(***************************************************************************)
(* The arithmetic of calculateStats.  A JavaScript Number is an IEEE 754   *)
(* double: a positive one is [bits, exp], bits being its Precision         *)
(* significant bits, the most significant (a 1) first, and its value       *)
(* 0.bits * 2^exp; every operation rounds its exact result to the nearest  *)
(* double, ties to the even one.                                           *)
(***************************************************************************)
\* The significant bits of a double
Precision == 53

\* The Number 0
FZero == [bits |-> <<>>, exp |-> 0]

\* Long division: the bits found so far, then n more bits of the binary
\* expansion of num/den (num < den), and the remainder left after them
RECURSIVE DivBitsFrom(_, _, _, _)
DivBitsFrom(num, den, n, bits) ==
    IF n = 0 THEN [bits |-> bits, rem |-> num]
    ELSE IF 2 * num >= den
         THEN DivBitsFrom(2 * num - den, den, n - 1, Append(bits, 1))
         ELSE DivBitsFrom(2 * num, den, n - 1, Append(bits, 0))

\* The first n bits of the binary expansion of num/den (num < den)
DivBits(num, den, n) == DivBitsFrom(num, den, n, <<>>)

\* Long multiplication from the last bit: the bits 1..i are still to be
\* multiplied by k, carry comes from the bits after them, low is the result there
RECURSIVE TimesFrom(_, _, _, _, _)
TimesFrom(bits, k, i, carry, low) ==
    IF i = 0 THEN [bits |-> low, carry |-> carry]
    ELSE TimesFrom(bits, k, i - 1, (bits[i] * k + carry) \div 2,
                   <<(bits[i] * k + carry) % 2>> \o low)

\* The bits times the small number k plus c, at the same length, and the
\* carry out of the first bit
TimesPlus(bits, k, c) == TimesFrom(bits, k, Len(bits), c, <<>>)

\* The binary digits of a natural number, most significant first
RECURSIVE NatBits(_)
NatBits(n) == IF n = 0 THEN <<>> ELSE NatBits(n \div 2) \o <<n % 2>>

\* The natural number with the given binary digits
RECURSIVE BitsNat(_)
BitsNat(bits) ==
    IF bits = <<>> THEN 0
    ELSE 2 * BitsNat(SubSeq(bits, 1, Len(bits) - 1)) + bits[Len(bits)]

\* The double nearest to 0.bits * 2^exp (bits begins with a 1 and has more
\* than Precision digits; inexact: further non-zero digits follow), ties to even
RoundToDouble(bits, inexact, exp) ==
    LET kept == SubSeq(bits, 1, Precision)
        guard == bits[Precision + 1]
        sticky == inexact \/ \E i \in (Precision + 2)..Len(bits) : bits[i] = 1
        up == guard = 1 /\ (sticky \/ kept[Precision] = 1)
        inc == TimesPlus(kept, 1, 1)
    IN  IF ~up THEN [bits |-> kept, exp |-> exp]
        ELSE IF inc.carry = 1
        THEN [bits |-> <<1>> \o SubSeq(inc.bits, 1, Precision - 1), exp |-> exp + 1]
        ELSE [bits |-> inc.bits, exp |-> exp]

\* v / t = (num / den) * 2^exp with 1/2 <= num/den < 1
RECURSIVE Normalised(_, _, _)
Normalised(v, t, e) ==
    IF v >= t THEN Normalised(v, 2 * t, e + 1)
    ELSE IF 2 * v < t THEN Normalised(2 * v, t, e - 1)
    ELSE [num |-> v, den |-> t, exp |-> e]

\* The Number v / t of two natural Numbers, t > 0
FDiv(v, t) ==
    IF v = 0 THEN FZero
    ELSE LET n == Normalised(v, t, 0)
             d == DivBits(n.num, n.den, Precision + 1)
         IN  RoundToDouble(d.bits, d.rem # 0, n.exp)

\* The Number x * k of a Number and a small natural Number k > 0
FTimes(x, k) ==
    IF x = FZero THEN FZero
    ELSE LET p == TimesPlus(x.bits, k, 0)
             high == NatBits(p.carry)
         IN  RoundToDouble(high \o p.bits \o <<0>>, FALSE, x.exp + Len(high))

\* Math.round(x): the integer nearest to x, the greater one of two
MathRound(x) ==
    IF x = FZero \/ x.exp < 0 THEN 0
    ELSE BitsNat(SubSeq(x.bits, 1, x.exp)) + x.bits[x.exp + 1]

(***************************************************************************)
(* ValidationProvider: the validation log of the frontend and the          *)
(* statistics derived from it.  A RequestLog is kept with its id,          *)
(* request_line, is_valid, error_type, validation_time_ms and user_session *)
(* (error_message, parse_tree and created_date are written and never read  *)
(* by the provider).                                                       *)
(***************************************************************************)

\* error_type: undefined, and the error types the provider writes
Undefined == <<>>
ValidationError == <<"v", "a", "l", "i", "d", "a", "t", "i", "o", "n", "_", "e", "r", "r", "o", "r">>
InvalidMethod == <<"i", "n", "v", "a", "l", "i", "d", "_", "m", "e", "t", "h", "o", "d">>
MissingExtension == <<"m", "i", "s", "s", "i", "n", "g", "_", "e", "x", "t", "e", "n", "s", "i", "o", "n">>
None == <<"N", "o", "n", "e">>

\* The sessionId of the validator page
SessionId == "session"

\* Math.floor(Math.random() * 100) + 20 lies in 20..119: its two ends
ResponseTimes == {20, 119}

RequestLog(id, request_line, is_valid, error_type, validation_time_ms, user_session) ==
    [id |-> id, request_line |-> request_line, is_valid |-> is_valid,
     error_type |-> error_type, validation_time_ms |-> validation_time_ms,
     user_session |-> user_session]

\* addValidationLog with the new entry put last
addValidationLogAtEnd(logs, id, inputText, res, sessionId, ms) ==
    Append(logs,
           RequestLog(id, inputText, res.is_valid,
                      IF Len(res.errors) > 0 THEN ValidationError ELSE Undefined,
                      ms, sessionId))

\* addValidationLog(inputText, result, sessionId), as the update of
\* validationLogs: id is the nextId the closure holds, ms the simulated
\* response time
addValidationLog(logs, id, inputText, res, sessionId, ms) ==
    <<RequestLog(id, inputText, res.is_valid,
                 IF Len(res.errors) > 0 THEN ValidationError ELSE Undefined,
                 ms, sessionId)>> \o logs

\* The sampleLogs of addSampleData, id being the nextId the closure holds
SampleLogs(id) ==
    <<
        RequestLog(id + 0,
            <<"G", "E", "T", SPACE, "/", "i", "n", "d", "e", "x", ".", "h", "t", "m", "l", SPACE, "H", "T", "T", "P", "/", "1", ".", "1">>,
            TRUE, Undefined, 45, "sample_session_1"),
        RequestLog(id + 1,
            <<"G", "E", "T", SPACE, "/", "a", "b", "o", "u", "t", ".", "h", "t", "m", "l", SPACE, "H", "T", "T", "P", "/", "2", ".", "0">>,
            TRUE, Undefined, 32, "sample_session_2"),
        RequestLog(id + 2,
            <<"G", "E", "T", SPACE, "/", "s", "t", "y", "l", "e", ".", "c", "s", "s", SPACE, "H", "T", "T", "P", "/", "1", ".", "0">>,
            TRUE, Undefined, 41, "sample_session_3"),
        RequestLog(id + 3,
            <<"G", "E", "T", SPACE, "/", "c", "o", "n", "t", "a", "c", "t", ".", "h", "t", "m", "l", SPACE, "H", "T", "T", "P", "/", "1", ".", "1">>,
            TRUE, Undefined, 38, "sample_session_4"),
        RequestLog(id + 4,
            <<"G", "E", "T", SPACE, "/", "a", "s", "s", "e", "t", "s", "/", "s", "c", "r", "i", "p", "t", ".", "j", "s", SPACE, "H", "T", "T", "P", "/", "2", ".", "0">>,
            TRUE, Undefined, 42, "sample_session_5"),
        RequestLog(id + 5,
            <<"G", "E", "T", SPACE, "/", "a", "p", "i", "/", "d", "a", "t", "a", ".", "j", "s", "o", "n", SPACE, "H", "T", "T", "P", "/", "1", ".", "1">>,
            TRUE, Undefined, 36, "sample_session_6"),
        RequestLog(id + 6,
            <<"G", "E", "T", SPACE, "/", "i", "m", "a", "g", "e", "s", "/", "l", "o", "g", "o", ".", "p", "n", "g", SPACE, "H", "T", "T", "P", "/", "1", ".", "0">>,
            TRUE, Undefined, 44, "sample_session_7"),
        RequestLog(id + 7,
            <<"P", "O", "S", "T", SPACE, "/", "s", "u", "b", "m", "i", "t", SPACE, "H", "T", "T", "P", "/", "1", ".", "1">>,
            FALSE, InvalidMethod, 39, "sample_session_8"),
        RequestLog(id + 8,
            <<"I", "N", "V", "A", "L", "I", "D", SPACE, "/", "t", "e", "s", "t", ".", "h", "t", "m", "l", SPACE, "H", "T", "T", "P", "/", "1", ".", "1">>,
            FALSE, InvalidMethod, 28, "sample_session_9"),
        RequestLog(id + 9,
            <<"G", "E", "T", SPACE, "/", "m", "i", "s", "s", "i", "n", "g", SPACE, "H", "T", "T", "P", "/", "1", ".", "1">>,
            FALSE, MissingExtension, 33, "sample_session_10") >>

\* str.replace(pattern, replacement) with string arguments of one character:
\* the first occurrence only
RECURSIVE Replace(_, _, _)
Replace(s, pattern, replacement) ==
    IF s = <<>> THEN <<>>
    ELSE IF Head(s) = pattern THEN <<replacement>> \o Tail(s)
    ELSE <<Head(s)>> \o Replace(Tail(s), pattern, replacement)

\* logs.reduce((sum, log) => sum + (log.validation_time_ms || 0), 0) over the
\* first n entries
RECURSIVE SumOfTimes(_, _)
SumOfTimes(logs, n) ==
    IF n = 0 THEN 0 ELSE SumOfTimes(logs, n - 1) + logs[n].validation_time_ms

\* The keys of errorCounts in insertion order: the error types of the first n
\* counted entries, each at its first occurrence
RECURSIVE ErrorKeys(_, _)
ErrorKeys(counted, n) ==
    IF n = 0 THEN <<>>
    ELSE IF \E i \in 1..(n - 1) : counted[i].error_type = counted[n].error_type
         THEN ErrorKeys(counted, n - 1)
         ELSE Append(ErrorKeys(counted, n - 1), counted[n].error_type)

\* errorCounts[key]
ErrorCount(counted, key) ==
    Cardinality({i \in DOMAIN counted : counted[i].error_type = key})

\* entries.reduce((a, b) => errorCounts[a[0]] > errorCounts[b[0]] ? a : b)
\* over the first n keys
RECURSIVE ReduceCommon(_, _, _)
ReduceCommon(counted, keys, n) ==
    IF n = 1 THEN keys[1]
    ELSE IF ErrorCount(counted, ReduceCommon(counted, keys, n - 1))
                > ErrorCount(counted, keys[n])
         THEN ReduceCommon(counted, keys, n - 1)
         ELSE keys[n]

IsCounted(log) == ~log.is_valid /\ log.error_type # Undefined

calculateStats(logs) ==
    LET total == Len(logs)
        valid == Cardinality({i \in DOMAIN logs : logs[i].is_valid})
        counted == SelectSeq(logs, IsCounted)
        keys == ErrorKeys(counted, Len(counted))
        commonError ==
            IF Len(keys) > 0 THEN ReduceCommon(counted, keys, Len(keys)) ELSE None
    IN  [total |-> total,
         valid |-> valid,
         invalid |-> total - valid,
         successRate |->
            IF total > 0 THEN MathRound(FTimes(FDiv(valid, total), 100)) ELSE 0,
         avgResponseTime |->
            IF total > 0
            THEN MathRound(FDiv(SumOfTimes(logs, total), total))
            ELSE 0,
         commonError |-> Replace(commonError, "_", " ")]

(***************************************************************************)
(* localStorage, as the ValidationProvider uses it: the items               *)
(* validation_logs and validation_next_id, each absent (getItem gives       *)
(* null) or a string.  The JSON text of the logs is kept as the sequence of *)
(* the objects it describes, the text of nextId as its decimal digits.      *)
(***************************************************************************)

\* getItem of an item that is not stored
Null == [present |-> FALSE]
Item(text) == [present |-> TRUE, text |-> text]

\* JSON.stringify of one RequestLog: a property whose value is undefined is
\* left out
StringifyLog(log) ==
    IF log.error_type = Undefined
    THEN [id |-> log.id, request_line |-> log.request_line,
          is_valid |-> log.is_valid,
          validation_time_ms |-> log.validation_time_ms,
          user_session |-> log.user_session]
    ELSE log

\* JSON.stringify(validationLogs)
JSONStringify(logs) == [k \in DOMAIN logs |-> StringifyLog(logs[k])]

\* A parsed object read as a RequestLog: a property it lacks reads undefined
ParseLog(object) ==
    RequestLog(object.id, object.request_line, object.is_valid,
               IF "error_type" \in DOMAIN object THEN object.error_type ELSE Undefined,
               object.validation_time_ms, object.user_session)

\* JSON.parse(savedLogs)
JSONParse(text) == [k \in DOMAIN text |-> ParseLog(text[k])]

Digits == <<"0", "1", "2", "3", "4", "5", "6", "7", "8", "9">>

\* nextId.toString(), for a number that is not negative
RECURSIVE NumberToString(_)
NumberToString(n) ==
    IF n < 10 THEN <<Digits[n + 1]>>
    ELSE Append(NumberToString(n \div 10), Digits[(n % 10) + 1])

\* parseInt(savedNextId, 10), for a string of digits
RECURSIVE ParseInt(_)
ParseInt(text) ==
    LET last == CHOOSE d \in 0..9 : Digits[d + 1] = text[Len(text)]
    IN  IF Len(text) = 1 THEN last
        ELSE 10 * ParseInt(SubSeq(text, 1, Len(text) - 1)) + last

\* The save effect: setItem of both items from the state just rendered
SaveEffect(storage, logs, id) ==
    [storage EXCEPT !.validation_logs = Item(JSONStringify(logs)),
                    !.validation_next_id = Item(NumberToString(id))]

\* The load effect with the stored next id left unread
LoadEffectLogsOnly(storage) ==
    [validationLogs |->
        IF storage.validation_logs.present
        THEN JSONParse(storage.validation_logs.text)
        ELSE <<>>,
     nextId |-> 1]

\* The load effect at mount: the state it sets from what is stored, over the
\* initial state [] and 1
LoadEffect(storage) ==
    [validationLogs |->
        IF storage.validation_logs.present
        THEN JSONParse(storage.validation_logs.text)
        ELSE <<>>,
     nextId |->
        IF storage.validation_next_id.present
        THEN ParseInt(storage.validation_next_id.text)
        ELSE 1]

\* clearLogs: removeItem of both items
RemoveItems(storage) ==
    [storage EXCEPT !.validation_logs = Null, !.validation_next_id = Null]

\* The storage of a browser that has never shown the application
NothingStored == [validation_logs |-> Null, validation_next_id |-> Null]

(***************************************************************************)
(* State and operations.                                                   *)
(*   pc          "boot" (before load_grammar), "failed" (load_grammar      *)
(*               raised), "ready", "busy" (a request is being handled)     *)
(*   candidate   the rules handed to load_grammar                          *)
(*   configError the GrammarConfigurationError raised, or NoError          *)
(*   grammar     the loaded Grammar, or NoGrammar                          *)
(*   request     the request in hand: who sent it, the text typed, the     *)
(*               line sent                                                 *)
(*   result      the ValidationResult of the last call, or NoResult        *)
(*   prev        a remembered earlier ValidationResult, or NoResult        *)
(*   batch       the batch in hand: its request lines and, per line, the   *)
(*               state of its validation call ("waiting", "running",       *)
(*               "done") and the call's result                             *)
(*   batchResponse the response of the last batch, or NoResponse           *)
(*   run         the call of validate followed step by step: its phase     *)
(*               ("idle", "chart", "build"), tokens, the chart so far, the *)
(*               cells tree building is expanding and the depth of the     *)
(*               expansion                                                 *)
(*   validationLogs the RequestLogs of the ValidationProvider, newest first *)
(*   nextId      the id the provider gives out next                        *)
(*   localStorage the items validation_logs and validation_next_id         *)
(*   validationForm  the ValidationForm: isValidating and the validations *)
(*               in flight, each with the input and the nextId its closure *)
(*               holds and the line it sent                                *)
(*   history     what has happened since the provider was mounted: the     *)
(*               number of operations of the user, the number of results   *)
(*               returned to the form since the last clearLogs, and the    *)
(*               number of reloads of the page                             *)
(*   api         the APIProvider: loading, error, grammar, examples, the   *)
(*               calls in flight (by function name, in the order they      *)
(*               started), and as history the number of calls started and  *)
(*               of successful grammar and examples fetches                *)
(***************************************************************************)
NoRequest == [via |-> "none", input |-> <<>>, line |-> <<>>]

\* No batch in hand; no response of a batch received
NoBatch == [requests |-> <<>>, status |-> <<>>, results |-> <<>>]
NoResponse == [received |-> FALSE, results |-> <<>>, total_processed |-> 0]

\* No call of validate is followed step by step
NoRun == [phase |-> "idle", tokens |-> <<>>, chart |-> {}, frontier |-> {},
          depth |-> 0]

\* The APIProvider at mount: not loading, no error, no grammar, no examples,
\* no call in flight; no call has been started and no fetch has succeeded
NoApi ==
    [loading |-> FALSE, error |-> "null", grammar |-> "null", examples |-> <<>>,
     calls |-> <<>>, started |-> 0, fetched |-> [grammar |-> 0, examples |-> 0]]

\* The form at rest; nothing has happened yet
NoForm == [isValidating |-> FALSE, inflight |-> <<>>]
NoHistory == [ops |-> 0, returned |-> 0, reloads |-> 0]

Init ==
    /\ pc = "boot"
    /\ candidate = NoGrammar
    /\ configError = NoError
    /\ grammar = NoGrammar
    /\ request = NoRequest
    /\ result = NoResult
    /\ prev = NoResult
    /\ batch = NoBatch
    /\ batchResponse = NoResponse
    /\ run = NoRun
    /\ validationLogs = <<>>
    /\ nextId = 1
    /\ localStorage = SaveEffect(NothingStored, validationLogs, nextId)
    /\ validationForm = NoForm
    /\ history = NoHistory
    /\ api = NoApi

\* Process start: load_grammar(production_rules, start)
LoadGrammar ==
    /\ pc = "boot"
    /\ \E rules \in GrammarCandidates :
          LET loaded == load_grammar(rules)
          IN  /\ candidate' = rules
              /\ grammar' = loaded.grammar
              /\ configError' = loaded.error
              /\ pc' = IF loaded.ok THEN "ready" ELSE "failed"
    /\ UNCHANGED <<request, result, prev>>
    /\ UNCHANGED aside

\* A caller hands a line to validate(line, grammar)
CallValidate(l) ==
    /\ pc = "ready"
    /\ pc' = "busy"
    /\ request' = [via |-> "engine", input |-> l, line |-> l]
    /\ result' = NoResult
    /\ UNCHANGED <<candidate, configError, grammar, prev>>
    /\ UNCHANGED aside

\* ValidationForm.handleValidate: nothing is sent for a blank input, else
\* validateRequest(input.trim())
SubmitForm(l) ==
    /\ pc = "ready"
    /\ Strip(l) # <<>>
    /\ pc' = "busy"
    /\ request' = [via |-> "form", input |-> l, line |-> Strip(l)]
    /\ result' = NoResult
    /\ UNCHANGED <<candidate, configError, grammar, prev>>
    /\ UNCHANGED aside

\* validate(line, grammar) runs to its result
Validate ==
    /\ pc = "busy"
    /\ request.via = "engine"
    /\ \E now \in Times :
          result' = validate_request(grammar, request.line, now)
    /\ pc' = "ready"
    /\ UNCHANGED <<candidate, configError, grammar, request, prev>>
    /\ UNCHANGED aside

\* POST /api/validate: request_line = data['request_line'].strip(), then
\* cfg_parser.validate_request(request_line), whose result is the response.
\* (The request_logs row the endpoint also writes belongs to the persistence
\* layer and is not part of this state.)
ApiValidate ==
    /\ pc = "busy"
    /\ request.via = "form"
    /\ \E now \in Times :
          result' = validate_request(grammar, Strip(request.line), now)
    /\ pc' = "ready"
    /\ UNCHANGED <<candidate, configError, grammar, request, prev>>
    /\ UNCHANGED aside

\* The caller keeps the result of the call just made
Remember ==
    /\ pc = "ready"
    /\ result # NoResult
    /\ prev' = result
    /\ UNCHANGED <<pc, candidate, configError, grammar, request, result>>
    /\ UNCHANGED aside

\* Alternative productions a grammar may be extended by: a terminal
\* alternative, an epsilon alternative, a longer and a recursive body
Extensions ==
    {Production("S", <<T(<<"A">>)>>),
     Production("S", <<T(<<"B">>)>>),
     Production("S", <<>>),
     Production("S", <<T(<<"A">>), T(<<SPACE>>), NT("S")>>),
     Production("SP", <<>>),
     Production("Opt", <<T(<<"B">>)>>),
     Production("X", <<T(<<"B">>)>>),
     Production("RequestTarget", <<T(<<"A">>)>>),
     Production("GET", <<T(<<"A">>)>>)}

\* The rules with one more alternative for an existing NonTerminal
Extended(rules, p) == Rules(rules.start, Append(rules.productions, p))

\* The process is started again with the rules extended by one alternative
\* production of an existing NonTerminal; candidate keeps the rules before
\* the extension.
ExtendGrammar ==
    /\ pc = "ready"
    /\ grammar = candidate
    /\ \E p \in Extensions :
          /\ p.head \in Heads(grammar.productions)
          /\ load_grammar(Extended(grammar, p)).ok
          /\ grammar' = load_grammar(Extended(grammar, p)).grammar
    /\ result' = NoResult
    /\ UNCHANGED <<pc, candidate, configError, request, prev>>
    /\ UNCHANGED aside

\* The request lines of the batches
BatchLines == {<<"A">>, <<"A", SPACE, "B">>, <<"A", "B">>}

\* The batches submitted: one, two and three lines, a line twice, and the
\* request body of the API documentation's kind (valid lines, then an invalid one)
Batches ==
    {<<l>> : l \in BatchLines}
        \cup {<<<<"A">>, <<"A", SPACE, "B">>>>,
              <<<<"A", SPACE, "B">>, <<"A">>>>,
              <<<<"A", "B">>, <<"A", "B">>>>,
              <<<<"A">>, <<"A", SPACE, "B">>, <<"A", "B">>>>}

\* apiClient.validateBatch(requests): POST /validate/batch with the lines
SubmitBatch(requests) ==
    /\ pc \in {"ready", "busy"}
    /\ batch = NoBatch \/ batchResponse.received
    /\ batch' = [requests |-> requests,
                 status |-> [i \in 1..Len(requests) |-> "waiting"],
                 results |-> [i \in 1..Len(requests) |-> NoResult]]
    /\ batchResponse' = NoResponse
    /\ UNCHANGED <<engineVars, runVars, frontVars, apiVars>>

\* The validation call of the i-th line of the batch starts
BatchStart(i) ==
    /\ i \in 1..Len(batch.requests)
    /\ batch.status[i] = "waiting"
    /\ batch' = [batch EXCEPT !.status[i] = "running"]
    /\ UNCHANGED <<engineVars, batchResponse, runVars, frontVars, apiVars>>

\* The validation call of the i-th line of the batch returns
BatchFinish(i) ==
    /\ i \in 1..Len(batch.requests)
    /\ batch.status[i] = "running"
    /\ \E now \in Times :
          batch' = [batch EXCEPT
                       !.status[i] = "done",
                       !.results[i] = validate_request(grammar, batch.requests[i], now)]
    /\ UNCHANGED <<engineVars, batchResponse, runVars, frontVars, apiVars>>

\* The response body of POST /validate/batch
BatchResponseBody(results) ==
    [received |-> TRUE, results |-> results, total_processed |-> Len(results)]

\* Every call of the batch has returned: the response is sent, and
\* apiClient.validateBatch hands response.data to its caller
BatchRespond ==
    /\ batch # NoBatch
    /\ ~batchResponse.received
    /\ \A i \in 1..Len(batch.requests) : batch.status[i] = "done"
    /\ batchResponse' = BatchResponseBody(batch.results)
    /\ UNCHANGED <<engineVars, batch, runVars, frontVars, apiVars>>

\* Process start with the grammar of cyclic unit productions
LoadCyclicGrammar ==
    /\ pc = "boot"
    /\ LET loaded == load_grammar(CyclicGrammar)
       IN  /\ candidate' = CyclicGrammar
           /\ grammar' = loaded.grammar
           /\ configError' = loaded.error
           /\ pc' = IF loaded.ok THEN "ready" ELSE "failed"
    /\ UNCHANGED <<request, result, prev>>
    /\ UNCHANGED aside

\* A (NonTerminal, span) cell of the chart
Cell(n, i, j) == [head |-> n, lo |-> i, hi |-> j]

\* The cells with a justification in the chart
RecordedCells(chart) == {Cell(e.head, e.lo, e.hi) : e \in chart}

\* The cells that expanding the justifications of cell c calls for: one per
\* NonTerminal of the body of each justification, over its part of the span
ChildCells(g, chart, c) ==
    UNION {{Cell(g.productions[e.prod].body[r].name, e.cuts[r], e.cuts[r + 1]) :
                r \in {r \in 1..Len(g.productions[e.prod].body) :
                          g.productions[e.prod].body[r].kind = "NT"}} :
           e \in {e \in chart : Cell(e.head, e.lo, e.hi) = c}}

\* validate starts: the line is tokenized, the chart is empty
RunTokenize ==
    /\ pc = "busy"
    /\ request.via = "engine"
    /\ run.phase = "idle"
    /\ run' = [NoRun EXCEPT !.phase = "chart",
                            !.tokens = tokenize_request(request.line)]
    /\ UNCHANGED <<engineVars, batchVars, frontVars, apiVars>>

\* One round of chart construction; at the fixpoint tree building starts at
\* the top cell if the start symbol is recorded over the full span
RunChartRound ==
    /\ run.phase = "chart"
    /\ LET next == ChartStep(grammar, run.tokens, run.chart)
           top == Cell(grammar.start, 0, Len(run.tokens))
       IN  run' = IF next # run.chart THEN [run EXCEPT !.chart = next]
                  ELSE [run EXCEPT !.phase = "build",
                                   !.frontier =
                                       IF top \in RecordedCells(run.chart)
                                       THEN {top} ELSE {}]
    /\ UNCHANGED <<engineVars, batchVars, frontVars, apiVars>>

\* Tree building descends one level: the justifications of the cells in
\* hand are expanded, which calls for their child cells
RunExpand ==
    /\ run.phase = "build"
    /\ run.frontier # {}
    /\ run.depth < MaxDepth
    /\ run' = [run EXCEPT
                   !.frontier = UNION {ChildCells(grammar, run.chart, c) :
                                          c \in run.frontier},
                   !.depth = run.depth + 1]
    /\ UNCHANGED <<engineVars, batchVars, frontVars, apiVars>>

\* Nothing is left to expand: validate returns its result
RunFinish ==
    /\ run.phase = "build"
    /\ run.frontier = {}
    /\ \E now \in Times :
          result' = validate_request(grammar, request.line, now)
    /\ pc' = "ready"
    /\ run' = NoRun
    /\ UNCHANGED <<candidate, configError, grammar, request, prev, batchVars,
                   frontVars, apiVars>>

\* Process start of the deployed server: load_grammar with the HTTP request
\* line grammar
StartServer ==
    /\ pc = "boot"
    /\ LET loaded == load_grammar(HTTPGrammar)
       IN  /\ candidate' = HTTPGrammar
           /\ grammar' = loaded.grammar
           /\ configError' = loaded.error
           /\ pc' = IF loaded.ok THEN "ready" ELSE "failed"
    /\ UNCHANGED <<request, result, prev>>
    /\ UNCHANGED aside

\* handleValidate, for a form whose validations may overlap: nothing is sent
\* for a blank input; the Validate button is disabled while isValidating, the
\* Ctrl+Enter of the text area is not; the closure keeps the input and the
\* nextId of the render it was made in; validateRequest of the APIProvider
\* does setLoading(true) and setError(null) and sends the request
FormSubmit(l, key) ==
    /\ pc = "ready"
    /\ Strip(l) # <<>>
    /\ key = "button" => ~validationForm.isValidating
    /\ Len(validationForm.inflight) < MaxInFlight
    /\ history.ops < MaxOps
    /\ validationForm' = [isValidating |-> TRUE,
                inflight |-> Append(validationForm.inflight,
                                    [input |-> l, line |-> Strip(l), id |-> nextId])]
    /\ history' = [history EXCEPT !.ops = @ + 1]
    /\ api' = [api EXCEPT !.loading = TRUE, !.error = "null"]
    /\ UNCHANGED <<engineVars, batchVars, runVars, providerVars>>

\* The sequence q without its i-th element
Without(q, i) == SubSeq(q, 1, i - 1) \o SubSeq(q, i + 1, Len(q))

\* validateRequest returns the result of POST /api/validate to the i-th
\* validation in flight, after its setLoading(false): setResult, then onValidationResult(input, result),
\* which is handleValidationResult and so addValidationLog; finally
\* setIsValidating(false)
FormReceive(i, ms) ==
    /\ i \in DOMAIN validationForm.inflight
    /\ api' = [api EXCEPT !.loading = FALSE]
    /\ history' = [history EXCEPT !.returned = @ + 1]
    /\ nextId' = nextId + 1
    /\ validationForm' = [isValidating |-> FALSE, inflight |-> Without(validationForm.inflight, i)]
    /\ \E now \in Times :
          LET sent == validationForm.inflight[i]
          IN  \E validationResult \in {validate_request(grammar, Strip(sent.line), now)} :
                 /\ result' = validationResult
                 /\ validationLogs' =
                       addValidationLog(validationLogs, sent.id, sent.input,
                                        validationResult, SessionId, ms)
    /\ localStorage' = SaveEffect(localStorage, validationLogs', nextId')
    /\ UNCHANGED <<pc, candidate, configError, grammar, request, prev>>
    /\ UNCHANGED <<batchVars, runVars>>

\* The API call of the i-th validation in flight fails: validateRequest does
\* handleError and setLoading(false) and returns null, nothing is logged;
\* finally setIsValidating(false)
FormReceiveNull(i) ==
    /\ i \in DOMAIN validationForm.inflight
    /\ validationForm' = [isValidating |-> FALSE, inflight |-> Without(validationForm.inflight, i)]
    /\ \E message \in {"response.error", "Failed to validate request"} :
          api' = [api EXCEPT !.loading = FALSE, !.error = message]
    /\ UNCHANGED <<engineVars, batchVars, runVars, providerVars, history>>

\* clearLogs(); the save effect follows the render of the cleared state
ClearLogs ==
    /\ history.ops < MaxOps
    /\ validationLogs' = <<>>
    /\ nextId' = 1
    /\ localStorage' = SaveEffect(RemoveItems(localStorage), validationLogs', nextId')
    /\ history' = [history EXCEPT !.ops = @ + 1, !.returned = 0]
    /\ UNCHANGED <<engineVars, batchVars, runVars, apiVars, validationForm>>

\* addSampleData()
AddSampleData ==
    /\ history.ops < MaxOps
    /\ validationLogs' = SampleLogs(nextId) \o validationLogs
    /\ nextId' = nextId + 10
    /\ localStorage' = SaveEffect(localStorage, validationLogs', nextId')
    /\ history' = [history EXCEPT !.ops = @ + 1]
    /\ UNCHANGED <<engineVars, batchVars, runVars, apiVars, validationForm>>

\* The page is reloaded: the validations and calls in flight end with the
\* page and the APIProvider mounts with its initial state; the
\* ValidationProvider mounts with [] and 1, its load effect sets the state
\* from localStorage, its save effect writes the initial state, and after the
\* render of the loaded state the save effect writes that
Remount ==
    /\ history.reloads < MaxReloads
    /\ LET mounted == SaveEffect(localStorage, <<>>, 1)
           loaded == LoadEffect(localStorage)
       IN  /\ validationLogs' = loaded.validationLogs
           /\ nextId' = loaded.nextId
           /\ localStorage' = SaveEffect(mounted, validationLogs', nextId')
    /\ validationForm' = NoForm
    /\ history' = [history EXCEPT !.reloads = @ + 1]
    /\ api' = [api EXCEPT !.loading = FALSE, !.error = "null",
                          !.grammar = "null", !.examples = <<>>, !.calls = <<>>]
    /\ UNCHANGED <<engineVars, batchVars, runVars>>


\* The functions of the APIProvider that set loading; those of them that
\* clear error first; those that do not touch loading
TrackedCalls ==
    {"validateRequest", "validateBatch", "loadGrammar", "loadExamples",
     "getAnalytics", "getDetailedAnalytics", "getErrorPatterns",
     "getErrorPattern", "getAIHelp"}
ClearingCalls == {"validateRequest", "validateBatch"}
UntrackedCalls == {"getSessionInfo", "getStatsSummary"}

\* The message handleError gets when the call throws
FailedMessage(call) ==
    CASE call = "validateRequest" -> "Failed to validate request"
      [] call = "validateBatch" -> "Failed to validate batch requests"
      [] call = "loadGrammar" -> "Failed to load grammar"
      [] call = "loadExamples" -> "Failed to load examples"
      [] call = "getAnalytics" -> "Failed to load analytics"
      [] call = "getDetailedAnalytics" -> "Failed to load detailed analytics"
      [] call = "getErrorPatterns" -> "Failed to load error patterns"
      [] call = "getErrorPattern" -> "Failed to load error pattern"
      [] call = "getStatsSummary" -> "Failed to load stats summary"
      [] call = "getAIHelp" -> "Failed to get AI help"
      [] OTHER -> "null"

\* What a request comes back with: data, an error of the API client, or an
\* exception; the examples a successful GET /examples may carry
Outcomes == {"data", "error", "throw"}
ExamplesData == {<<>>, <<"GET /index.html HTTP/1.1">>}

\* A function of the provider other than loadGrammar and loadExamples is
\* called: setLoading(true), setError(null) where the function does it, and
\* the request is sent
StartCall(call) ==
    /\ call \in (TrackedCalls \cup UntrackedCalls) \ {"loadGrammar", "loadExamples"}
    /\ Len(api.calls) < MaxApiCalls
    /\ api.started < MaxApiStarted
    /\ api' = [api EXCEPT !.loading = IF call \in TrackedCalls THEN TRUE ELSE @,
                          !.error = IF call \in ClearingCalls THEN "null" ELSE @,
                          !.calls = Append(@, call),
                          !.started = @ + 1]
    /\ UNCHANGED <<engineVars, batchVars, runVars, frontVars>>

\* loadGrammar(): returns at once if a grammar is stored, else
\* setLoading(true) and GET /grammar
loadGrammar ==
    /\ Len(api.calls) < MaxApiCalls
    /\ api.started < MaxApiStarted
    /\ api' = IF api.grammar # "null"
              THEN [api EXCEPT !.started = @ + 1]
              ELSE [api EXCEPT !.loading = TRUE,
                               !.calls = Append(@, "loadGrammar"),
                               !.started = @ + 1]
    /\ UNCHANGED <<engineVars, batchVars, runVars, frontVars>>

\* loadExamples(): returns at once if examples are stored, else
\* setLoading(true) and GET /examples
loadExamples ==
    /\ Len(api.calls) < MaxApiCalls
    /\ api.started < MaxApiStarted
    /\ api' = IF Len(api.examples) > 0
              THEN [api EXCEPT !.started = @ + 1]
              ELSE [api EXCEPT !.loading = TRUE,
                               !.calls = Append(@, "loadExamples"),
                               !.started = @ + 1]
    /\ UNCHANGED <<engineVars, batchVars, runVars, frontVars>>

\* The request of the i-th call in flight comes back: handleError on an
\* error or an exception, setGrammar or setExamples on the data of
\* loadGrammar or loadExamples, and finally setLoading(false) in the
\* functions that set it
CompleteCall(i, outcome, examples) ==
    /\ i \in DOMAIN api.calls
    /\ LET call == api.calls[i]
           stores == outcome = "data"
       IN  api' = [api EXCEPT
                !.loading = IF call \in TrackedCalls THEN FALSE ELSE @,
                !.error = IF outcome = "error" /\ call # "getSessionInfo"
                          THEN "response.error"
                          ELSE IF outcome = "throw" /\ call # "getSessionInfo"
                          THEN FailedMessage(call)
                          ELSE @,
                !.grammar = IF call = "loadGrammar" /\ stores
                            THEN "GrammarInfo" ELSE @,
                !.examples = IF call = "loadExamples" /\ stores
                             THEN examples ELSE @,
                !.calls = Without(@, i),
                !.fetched =
                    [grammar |-> IF call = "loadGrammar" /\ stores
                                 THEN @.grammar + 1 ELSE @.grammar,
                     examples |-> IF call = "loadExamples" /\ stores
                                  THEN @.examples + 1 ELSE @.examples]]
    /\ UNCHANGED <<engineVars, batchVars, runVars, frontVars>>

Next ==
    \/ LoadGrammar
    \/ \E l \in Lines : CallValidate(l)
    \/ \E l \in Lines : SubmitForm(l)
    \/ Validate
    \/ ApiValidate

Spec == Init /\ [][Next]_vars

NextIdem ==
    \/ LoadGrammar
    \/ \E l \in IdemLines : CallValidate(l)
    \/ Validate
    \/ Remember

\* Repeated calls of validate, with results kept for comparison
SpecIdem == Init /\ [][NextIdem]_vars

\* The input lines of the extension specification
ExtLines ==
    StringsUpTo({"A", SPACE}, MaxIdemLen)
        \cup {<<"A", SPACE, "B">>, <<"A", SPACE, "A", SPACE, "B">>, ValidRootLine}

NextExt ==
    \/ LoadGrammar
    \/ \E l \in ExtLines : CallValidate(l)
    \/ Validate
    \/ Remember
    \/ ExtendGrammar

\* Calls of validate before and after an extension of the grammar
SpecExt == Init /\ [][NextExt]_vars

NextBatch ==
    \/ LoadGrammar
    \/ \E l \in BatchLines : CallValidate(l)
    \/ Validate
    \/ Remember
    \/ \E requests \in Batches : SubmitBatch(requests)
    \/ \E i \in DOMAIN batch.requests : BatchStart(i)
    \/ \E i \in DOMAIN batch.requests : BatchFinish(i)
    \/ BatchRespond

\* A batch whose calls run concurrently with each other and with single calls
SpecBatch == Init /\ [][NextBatch]_vars

\* The input lines of the step-by-step specification
RunLines ==
    StringsUpTo({"A", SPACE}, MaxIdemLen)
        \cup {<<"A", SPACE, "B">>, <<"A", SPACE, "A">>, ValidRootLine, ExtraSpacesLine}

NextRun ==
    \/ LoadGrammar
    \/ LoadCyclicGrammar
    \/ \E l \in RunLines : CallValidate(l)
    \/ RunTokenize
    \/ RunChartRound
    \/ RunExpand
    \/ RunFinish

\* validate followed step by step, the cyclic grammar included
SpecRun == Init /\ [][NextRun]_vars

\* The inputs typed into the form
FormLines == {ValidRootLine, LeadingSpaceLine, PostLine}

NextForm ==
    \/ StartServer
    \/ \E l \in FormLines, key \in {"button", "ctrlEnter"} : FormSubmit(l, key)
    \/ \E i \in 1..MaxInFlight, ms \in ResponseTimes : FormReceive(i, ms)
    \/ \E i \in 1..MaxInFlight : FormReceiveNull(i)
    \/ ClearLogs
    \/ AddSampleData

\* The validator page and the analytics page over one ValidationProvider,
\* mounted with nothing saved
SpecForm == Init /\ [][NextForm]_vars

\* The result every grammar of the model gives an input without GET
InvalidResult == validate_request(load_grammar(HTTPGrammar).grammar, PostLine, 1)

\* A log the provider has saved: k runs of addSampleData, then j invalid
\* validations
RECURSIVE SavedLogs(_, _)
SavedLogs(k, j) ==
    IF j > 0
    THEN addValidationLog(SavedLogs(k, j - 1), 10 * k + j, PostLine,
                          InvalidResult, SessionId, 20)
    ELSE IF k > 0
    THEN SampleLogs(10 * (k - 1) + 1) \o SavedLogs(k - 1, 0)
    ELSE <<>>

\* Mount with validation_logs and validation_next_id found in localStorage
InitLoaded ==
    /\ pc = "boot"
    /\ candidate = NoGrammar
    /\ configError = NoError
    /\ grammar = NoGrammar
    /\ request = NoRequest
    /\ result = NoResult
    /\ prev = NoResult
    /\ batch = NoBatch
    /\ batchResponse = NoResponse
    /\ run = NoRun
    /\ \E k \in 0..MaxSampleRuns, j \in 0..MaxSavedInvalid :
          /\ validationLogs = SavedLogs(k, j)
          /\ nextId = 10 * k + j + 1
    /\ localStorage = SaveEffect(NothingStored, validationLogs, nextId)
    /\ validationForm = NoForm
    /\ history = NoHistory
    /\ api = NoApi

\* The same pages, mounted with a saved log
SpecStats == InitLoaded /\ [][NextForm]_vars

NextReload ==
    \/ StartServer
    \/ \E l \in FormLines, key \in {"button", "ctrlEnter"} : FormSubmit(l, key)
    \/ \E i \in 1..MaxInFlight, ms \in ResponseTimes : FormReceive(i, ms)
    \/ \E i \in 1..MaxInFlight : FormReceiveNull(i)
    \/ ClearLogs
    \/ AddSampleData
    \/ Remount

\* The same pages with reloads of the page
SpecReload == Init /\ [][NextReload]_vars

NextApi ==
    \/ \E call \in TrackedCalls \cup UntrackedCalls : StartCall(call)
    \/ loadGrammar
    \/ loadExamples
    \/ \E i \in 1..MaxApiCalls, outcome \in Outcomes, examples \in ExamplesData :
          CompleteCall(i, outcome, examples)

\* The components of the application calling the functions of the APIProvider
SpecApi == Init /\ [][NextApi]_vars

(***************************************************************************)
(* Reference semantics of a grammar, independent of charts and spans: the  *)
(* leftmost derivations of a token sequence from a sentential form.        *)
(***************************************************************************)
\* The least number of tokens the sentential form can derive, given the least
\* numbers ml of the NonTerminals, capped at cap
RECURSIVE FormMinLen(_, _, _)
FormMinLen(form, ml, cap) ==
    IF form = <<>> THEN 0
    ELSE LET first == IF Head(form).kind = "T" THEN 1 ELSE ml[Head(form).name]
             rest == FormMinLen(Tail(form), ml, cap)
         IN  IF first + rest > cap THEN cap ELSE first + rest

RECURSIVE MinLenFrom(_, _, _)
MinLenFrom(g, ml, cap) ==
    LET next == [h \in Heads(g.productions) |->
                    Min({FormMinLen(g.productions[p].body, ml, cap) :
                            p \in {p \in 1..Len(g.productions) :
                                      g.productions[p].head = h}})]
    IN  IF next = ml THEN ml ELSE MinLenFrom(g, next, cap)

\* The least number of tokens each NonTerminal derives, capped at cap
MinLen(g, cap) == MinLenFrom(g, [h \in Heads(g.productions) |-> cap], cap)

\* The number of leftmost derivations of the tokens from the sentential form;
\* Alternatives sums over the productions p.. of the form's first symbol.
RECURSIVE Derivations(_, _, _, _)
RECURSIVE Alternatives(_, _, _, _, _)
Derivations(g, ml, form, tokens) ==
    IF FormMinLen(form, ml, Len(tokens) + 1) > Len(tokens) THEN 0
    ELSE IF form = <<>> THEN IF tokens = <<>> THEN 1 ELSE 0
    ELSE IF Head(form).kind = "T"
    THEN IF tokens # <<>> /\ Head(tokens) = Head(form).text
         THEN Derivations(g, ml, Tail(form), Tail(tokens))
         ELSE 0
    ELSE Alternatives(g, ml, form, tokens, 1)

Alternatives(g, ml, form, tokens, p) ==
    IF p > Len(g.productions) THEN 0
    ELSE (IF g.productions[p].head = Head(form).name
          THEN Derivations(g, ml, g.productions[p].body \o Tail(form), tokens)
          ELSE 0)
         + Alternatives(g, ml, form, tokens, p + 1)

\* The number of distinct derivations of the token sequence from the start symbol
NumDerivations(g, tokens) ==
    Derivations(g, MinLen(g, Len(tokens) + 1), <<NT(g.start)>>, tokens)

\* A validation has returned
Returned == pc = "ready" /\ result # NoResult

(***************************************************************************)
(* Properties.                                                             *)
(***************************************************************************)
\* The epsilon productions of the grammar
EpsilonProductions(g) ==
    {p \in 1..Len(g.productions) : g.productions[p].body = <<>>}

\* C1: validate reports is_valid = true iff the token sequence is derivable
\* from the start symbol, iff the recognizer records the start symbol over
\* [0, n); an epsilon body is recorded over every zero-length span [i, i) and
\* over no non-empty span.
C1_ValidIffDerivable ==
    Returned =>
        LET n == Len(result.tokens)
            chart == Chart(grammar, result.tokens)
        IN  /\ result.is_valid <=> NumDerivations(grammar, result.tokens) > 0
            /\ result.is_valid <=> Recorded(chart, grammar.start, 0, n)
            /\ \A p \in EpsilonProductions(grammar) :
                  /\ \A i \in 0..n :
                        [head |-> grammar.productions[p].head, lo |-> i, hi |-> i,
                         prod |-> p, cuts |-> <<i>>] \in chart
                  /\ \A e \in chart : e.prod = p => e.lo = e.hi

\* C1 witness: a one-token line accepted through a rule with two body symbols,
\* one of them derived by an epsilon production
C1_Witness ==
    /\ Returned
    /\ grammar = EpsilonGrammar
    /\ result.is_valid
    /\ Len(result.tokens) = 1

\* Do the children of the node, in order, tile its span?
Tiled(t) ==
    /\ t.children[1].lo = t.lo
    /\ t.children[Len(t.children)].hi = t.hi
    /\ \A r \in 1..Len(t.children) : t.children[r].lo <= t.children[r].hi
    /\ \A r \in 1..(Len(t.children) - 1) : t.children[r].hi = t.children[r + 1].lo

\* Is the childless node the leaf of exactly one token, with that token's span?
TokenLeaf(t, tokens) ==
    /\ t.children = <<>>
    /\ t.hi = t.lo + 1
    /\ t.hi <= Len(tokens)
    /\ t.label = tokens[t.hi]

\* Is the childless node a NonTerminal expanded by an epsilon production, over
\* an empty span?
EpsilonNode(t, g) ==
    /\ t.children = <<>>
    /\ t.hi = t.lo
    /\ \E p \in EpsilonProductions(g) : t.label = Name(g.productions[p].head)

\* Every childless node is a token leaf, every other node is tiled by its children
RECURSIVE LeavesAreTokens(_, _)
LeavesAreTokens(t, tokens) ==
    IF t.children = <<>> THEN TokenLeaf(t, tokens)
    ELSE /\ Tiled(t)
         /\ \A r \in 1..Len(t.children) : LeavesAreTokens(t.children[r], tokens)

\* Every childless node is a token leaf or an epsilon node, every other node is
\* tiled by its children
RECURSIVE WellSpanned(_, _, _)
WellSpanned(t, tokens, g) ==
    IF t.children = <<>> THEN TokenLeaf(t, tokens) \/ EpsilonNode(t, g)
    ELSE /\ Tiled(t)
         /\ \A r \in 1..Len(t.children) : WellSpanned(t.children[r], tokens, g)

RECURSIVE Leaves(_)
Leaves(t) ==
    IF t.children = <<>> THEN <<t>>
    ELSE Flatten([r \in 1..Len(t.children) |-> Leaves(t.children[r])])

\* The labels of a sequence of nodes
Labels(nodes) == [r \in 1..Len(nodes) |-> nodes[r].label]

\* The nodes of the sequence that span at least one token
RECURSIVE NonEmpty(_)
NonEmpty(nodes) ==
    IF Len(nodes) = 0 THEN <<>>
    ELSE IF Head(nodes).hi > Head(nodes).lo
         THEN <<Head(nodes)>> \o NonEmpty(Tail(nodes))
         ELSE NonEmpty(Tail(nodes))

ResultFields ==
    {"is_valid", "request_line", "tokens", "parse_trees", "errors",
     "grammar_rules", "timestamp"}

\* The diagnostic categories
Categories ==
    {"StructuralMismatch", "MissingSeparator", "UnexpectedTrailingInput",
     "NoDerivation"}

\* C4: validate always returns a ValidationResult: a line that is not
\* derivable gives is_valid = false, at least one diagnostic and no tree; a
\* derivable line gives is_valid = true and no diagnostic.
C4_InvalidIsAnOutcome ==
    Returned =>
        /\ DOMAIN result = ResultFields
        /\ \A k \in 1..Len(result.errors) : result.errors[k].category \in Categories
        /\ IF NumDerivations(grammar, result.tokens) = 0
           THEN /\ ~result.is_valid
                /\ Len(result.errors) > 0
                /\ result.parse_trees = <<>>
           ELSE /\ result.is_valid
                /\ result.errors = <<>>

\* C4 witness: the line "AB" against S -> "A" SP "B" is invalid, with a
\* diagnostic and no tree
C4_Witness ==
    /\ Returned
    /\ grammar = ExampleGrammar
    /\ result.tokens = << <<"A", "B">> >>
    /\ ~result.is_valid
    /\ Len(result.errors) > 0

DerivesOver(g, sym, tokens, a, b) ==
    Derivations(g, MinLen(g, b - a + 1), <<sym>>, SubSeq(tokens, a + 1, b)) > 0

\* The (production, split points) pairs that derive the whole token sequence
\* from the start symbol, by the reference semantics
TopJustifications(g, tokens) ==
    UNION {{<<p, c>> :
              c \in {c \in [1..(Len(g.productions[p].body) + 1) -> 0..Len(tokens)] :
                      /\ c[1] = 0
                      /\ c[Len(g.productions[p].body) + 1] = Len(tokens)
                      /\ \A r \in 1..Len(g.productions[p].body) :
                            /\ c[r] <= c[r + 1]
                            /\ DerivesOver(g, g.productions[p].body[r], tokens,
                                           c[r], c[r + 1])}} :
           p \in {p \in 1..Len(g.productions) : g.productions[p].head = g.start}}

\* C6: build_trees returns exactly as many trees as the token sequence has
\* derivations from the start symbol, pairwise distinct, and the chart holds
\* every justification of the top-level span.
C6_AmbiguitySurfaced ==
    Returned =>
        LET n == Len(result.tokens)
            trees == result.parse_trees
        IN  /\ Len(trees) = NumDerivations(grammar, result.tokens)
            /\ \A x, y \in 1..Len(trees) : x # y => trees[x] # trees[y]
            /\ result.is_valid =>
                  {<<e.prod, e.cuts>> :
                      e \in {e \in Chart(grammar, result.tokens) :
                                e.head = grammar.start /\ e.lo = 0 /\ e.hi = n}}
                  = TopJustifications(grammar, result.tokens)

\* C6 witness: an input with two derivations gets two trees
C6_Witness ==
    /\ Returned
    /\ NumDerivations(grammar, result.tokens) = 2
    /\ Len(result.parse_trees) = 2

\* Is the token a separator?
IsSeparator(token) == token = <<SPACE>>

\* C7 as stated: the empty line gives no token; a line of spaces only gives
\* separator tokens only, at least one; a leading or trailing space of the
\* line is kept as a separator token at the start or end of the tokens.
C7_EdgeSpacesKept ==
    Returned =>
        LET l == result.request_line
            tokens == result.tokens
        IN  /\ l = <<>> => tokens = <<>>
            /\ (l # <<>> /\ \A i \in 1..Len(l) : l[i] = SPACE) =>
                  /\ tokens # <<>>
                  /\ \A k \in 1..Len(tokens) : IsSeparator(tokens[k])
            /\ (l # <<>> /\ l[1] = SPACE) =>
                  (tokens # <<>> /\ IsSeparator(tokens[1]))
            /\ (l # <<>> /\ l[Len(l)] = SPACE) =>
                  (tokens # <<>> /\ IsSeparator(tokens[Len(tokens)]))

\* The last position of the whitespace run that position i of the line is in
RECURSIVE RunEnd(_, _)
RunEnd(l, i) ==
    IF i < Len(l) /\ l[i + 1] \in Whitespace THEN RunEnd(l, i + 1) ELSE i

\* The line from position i on, with every run of two or more whitespace
\* characters that lies between two non-space runs replaced by one space
RECURSIVE CollapseFrom(_, _)
CollapseFrom(l, i) ==
    IF i > Len(l) THEN <<>>
    ELSE IF l[i] \notin Whitespace THEN <<l[i]>> \o CollapseFrom(l, i + 1)
    ELSE LET e == RunEnd(l, i)
         IN  IF i > 1 /\ e < Len(l) /\ e > i
             THEN <<SPACE>> \o CollapseFrom(l, e + 1)
             ELSE SubSeq(l, i, e) \o CollapseFrom(l, e + 1)

CollapseRuns(l) == CollapseFrom(l, 1)

RECURSIVE WordsFrom(_, _, _)
WordsFrom(l, i, word) ==
    IF i > Len(l) THEN IF word = <<>> THEN <<>> ELSE <<word>>
    ELSE IF l[i] \in Whitespace
         THEN (IF word = <<>> THEN <<>> ELSE <<word>>) \o WordsFrom(l, i + 1, <<>>)
         ELSE WordsFrom(l, i + 1, Append(word, l[i]))

\* The words joined by single spaces
RECURSIVE Join(_)
Join(words) ==
    IF Len(words) = 0 THEN <<>>
    ELSE IF Len(words) = 1 THEN Head(words)
    ELSE Head(words) \o <<SPACE>> \o Join(Tail(words))

\* The line with exactly one space between its components and none around them
SingleSpaced(l) == Join(WordsFrom(l, 1, <<>>))

\* C9 as stated: a line typed into the validation form that differs from a
\* valid request line only in its whitespace (extra spaces between the
\* components, a leading or trailing space, tabs for the single spaces) is
\* reported invalid.
C9_WhitespaceVariantsInvalid ==
    (Returned /\ request.via = "form") =>
        LET valid_line == SingleSpaced(request.input)
        IN  (/\ request.input # valid_line
             /\ NumDerivations(grammar, tokenize_request(valid_line)) > 0)
            => ~result.is_valid

\* Is the start symbol of the rules without a production?
StartUndefined(rules) ==
    ~\E p \in 1..Len(rules.productions) : rules.productions[p].head = rules.start

\* Does a body of the rules reference a NonTerminal without a production?
Dangling(rules) ==
    \E p \in 1..Len(rules.productions) :
        \E r \in 1..Len(rules.productions[p].body) :
            /\ rules.productions[p].body[r].kind = "NT"
            /\ ~\E q \in 1..Len(rules.productions) :
                  rules.productions[q].head = rules.productions[p].body[r].name

\* Do the rules declare the same (head, body) pair twice?
Duplicated(rules) ==
    Cardinality({rules.productions[p] : p \in 1..Len(rules.productions)})
        < Len(rules.productions)

IsExtension(P, P2) ==
    /\ Len(P2) = Len(P) + 1
    /\ SubSeq(P2, 1, Len(P)) = P
    /\ P2[Len(P2)].head \in Heads(P)
    /\ \A q \in 1..Len(P) : P[q] # P2[Len(P2)]

\* The remembered result is of the same line under the grammar before its
\* extension
SameLineBeforeExtension ==
    /\ Returned
    /\ prev # NoResult
    /\ prev.request_line = result.request_line
    /\ IsExtension(prev.grammar_rules, result.grammar_rules)

Spelled(nodes) == Flatten(Labels(nodes))

SameButTime(a, b) ==
    [a EXCEPT !.timestamp = 0] = [b EXCEPT !.timestamp = 0]

\* The result a call of the batch returned for its i-th line is the result of
\* validating that line alone, whenever such a result is at hand
AsAlone(i) ==
    /\ (Returned /\ result.request_line = batch.requests[i])
           => SameButTime(batch.results[i], result)
    /\ (prev # NoResult /\ prev.request_line = batch.requests[i])
           => SameButTime(batch.results[i], prev)

C13_Overlap ==
    /\ pc = "busy"
    /\ \E i, j \in DOMAIN batch.requests :
          i < j /\ batch.status[i] = "running" /\ batch.status[j] = "running"

Failed == Returned /\ ~result.is_valid

\* The productions of the grammar, as a set
ProductionSet(g) == {g.productions[p] : p \in 1..Len(g.productions)}

\* Rule 1 of the policy: there is no token, or no production of the start
\* symbol begins with the first token or with a NonTerminal that has the
\* first token as a length-1 production
Rule1(g, tokens) ==
    \/ tokens = <<>>
    \/ \A P \in ProductionSet(g) :
          (P.head = g.start /\ P.body # <<>>) =>
              /\ Head(P.body) # T(tokens[1])
              /\ Production(Head(P.body).name, <<T(tokens[1])>>) \notin ProductionSet(g)

\* Some NonTerminal derives the tokens of [a, b), by the reference semantics
SomeDerives(g, tokens, a, b) ==
    \E h \in Heads(g.productions) : DerivesOver(g, NT(h), tokens, a, b)

\* Rule 2: a boundary with a derivable span on either side up to the ends
Rule2(g, tokens) ==
    \E k \in 1..(Len(tokens) - 1) :
        SomeDerives(g, tokens, 0, k) /\ SomeDerives(g, tokens, k, Len(tokens))

\* Rule 3: a derivable proper prefix, with tokens beyond it
Rule3(g, tokens) ==
    \E m \in 1..(Len(tokens) - 1) : SomeDerives(g, tokens, 0, m)

\* C15: a failure with no token, or with a first token that matches no
\* length-1 production at the entry of the grammar, reports a
\* StructuralMismatch at position 0 as its first diagnostic.
C15_StructuralMismatchFirst ==
    (Failed /\ Rule1(grammar, result.tokens)) =>
        /\ Len(result.errors) > 0
        /\ result.errors[1].category = "StructuralMismatch"
        /\ result.errors[1].lo = 0
        /\ \A k \in 2..Len(result.errors) :
              result.errors[k].category # "StructuralMismatch"

\* A failure with tokens whose first token does not match, reported first and
\* followed by another diagnostic
C15_Witness ==
    /\ Failed
    /\ result.tokens # <<>>
    /\ Rule1(grammar, result.tokens)
    /\ Len(result.errors) > 1
    /\ result.errors[1] = Diagnostic("StructuralMismatch", 0, 1)

\* The rank of a diagnostic category in the policy
Rank(category) ==
    CASE category = "StructuralMismatch" -> 1
      [] category = "MissingSeparator" -> 2
      [] category = "UnexpectedTrailingInput" -> 3
      [] OTHER -> 4

\* The category of the highest-priority rule whose condition holds
TopCategory(g, tokens) ==
    IF Rule1(g, tokens) THEN "StructuralMismatch"
    ELSE IF Rule2(g, tokens) THEN "MissingSeparator"
    ELSE IF Rule3(g, tokens) THEN "UnexpectedTrailingInput"
    ELSE "NoDerivation"

\* C16: the diagnostics of a failure follow the priority order
\* StructuralMismatch, MissingSeparator, UnexpectedTrailingInput,
\* NoDerivation: the first belongs to the highest-priority rule that applies,
\* none of lower priority precedes one of higher priority, NoDerivation over
\* the whole input is there exactly when none of the first three rules
\* applies, and there is at least one diagnostic.
C16_RankedDiagnostics ==
    Failed =>
        LET errors == result.errors
            tokens == result.tokens
        IN  /\ Len(errors) > 0
            /\ errors[1].category = TopCategory(grammar, tokens)
            /\ \A k \in 1..(Len(errors) - 1) :
                  Rank(errors[k].category) < Rank(errors[k + 1].category)
            /\ (\E k \in 1..Len(errors) : errors[k].category = "NoDerivation")
                  = (TopCategory(grammar, tokens) = "NoDerivation")
            /\ \A k \in 1..Len(errors) :
                  errors[k].category = "NoDerivation" =>
                      errors[k] = Diagnostic("NoDerivation", 0, Len(tokens))

\* A failure reported by three diagnostics in priority order
C16_Witness ==
    /\ Failed
    /\ Len(result.errors) = 3
    /\ result.errors[1] = Diagnostic("StructuralMismatch", 0, 1)
    /\ result.errors[2] = Diagnostic("MissingSeparator", 1, 1)
    /\ result.errors[3] = Diagnostic("UnexpectedTrailingInput", 1, 3)

\* A failure that no rule localizes
C16_NoDerivationReached ==
    Failed /\ result.errors = <<Diagnostic("NoDerivation", 0, Len(result.tokens))>>

\* The line "A B" has been validated against S -> "A" SP "B"
ExampleOne ==
    /\ Returned
    /\ grammar = ExampleGrammar
    /\ result.request_line = <<"A", SPACE, "B">>

\* Is the node a leaf with the given text?
IsLeaf(t, text) == t.label = text /\ t.children = <<>>

ExactRequestLines ==
    {GETText \o <<SPACE>> \o target \o <<SPACE>> \o version :
        target \in {RootText, IndexText, AboutText, ContactText, StyleText},
        version \in {Http10Text, Http11Text, Http20Text}}

\* C18 as stated: with the HTTP grammar a request line is accepted if and
\* only if it is exactly GET, one space, one of the five targets, one space
\* and one of the three versions.
C18_AcceptsExactly ==
    (Returned /\ grammar = HTTPGrammar) =>
        (result.is_valid = (result.request_line \in ExactRequestLines))

\* What holds instead: a request line is accepted if and only if it is one
\* of these lines once its whitespace is normalised.
AcceptsUpToWhitespace ==
    (Returned /\ grammar = HTTPGrammar) =>
        (result.is_valid = (SingleSpaced(result.request_line) \in ExactRequestLines))

\* The entries of the log written by validations of the form
LoggedByForm(logs) == {k \in DOMAIN logs : logs[k].user_session = SessionId}

\* C19: every ValidationResult returned to the validation form adds exactly
\* one entry to validationLogs, at the front, carrying the result's is_valid;
\* a validation whose API call fails (null result) adds no entry; so the
\* number of entries validations have added since the last clearLogs equals
\* the number of results returned since then.
C19_LoggingExact ==
    [][ /\ history'.returned = history.returned + 1 =>
              /\ Len(validationLogs') = Len(validationLogs) + 1
              /\ Tail(validationLogs') = validationLogs
              /\ Head(validationLogs').is_valid = result'.is_valid
        /\ \A i \in 1..MaxInFlight :
              FormReceiveNull(i) => validationLogs' = validationLogs
        /\ Cardinality(LoggedByForm(validationLogs')) = history'.returned
      ]_vars

\* Two validations have returned, a valid result after an invalid one: the
\* log holds the two entries, the newer one first
C19_Witness ==
    /\ history.returned = 2
    /\ validationForm.inflight = <<>>
    /\ Len(validationLogs) = 2
    /\ validationLogs[1].is_valid
    /\ ~validationLogs[2].is_valid


\* The rational num/den rounded to the nearest integer, halves upwards
Rounded(num, den) == (2 * num + den) \div (2 * den)

\* The error types of the invalid entries of the log, and the number of
\* invalid entries of a type
ErrorTypes(logs) == {logs[k].error_type : k \in {n \in DOMAIN logs : IsCounted(logs[n])}}
InvalidOfType(logs, type) ==
    Cardinality({k \in DOMAIN logs : IsCounted(logs[k]) /\ logs[k].error_type = type})

\* What the statistics say beside the success rate: the counts, the zeros of
\* an empty log, and the most common error, named as it is displayed (with
\* its first underscore replaced by a space)
CountsAndCommonError(logs, stats) ==
    /\ stats.total = Len(logs)
    /\ stats.valid + stats.invalid = stats.total
    /\ stats.successRate \in 0..100
    /\ stats.total = 0 => stats.successRate = 0 /\ stats.avgResponseTime = 0
    /\ ErrorTypes(logs) = {} => stats.commonError = None
    /\ ErrorTypes(logs) # {} =>
          \E type \in ErrorTypes(logs) :
             /\ stats.commonError = Replace(type, "_", " ")
             /\ \A other \in ErrorTypes(logs) :
                   InvalidOfType(logs, other) <= InvalidOfType(logs, type)

\* C20 as stated: in every reachable state of the ValidationProvider the
\* derived statistics satisfy: total is the number of log entries, valid +
\* invalid = total, successRate = round(100 * valid / total) and lies in
\* 0..100, successRate and avgResponseTime are 0 when total = 0, commonError
\* is 'None' when no invalid entry has an error type and otherwise names an
\* error type with the maximal count among the invalid entries.
C20_StatsAsStated ==
    LET stats == calculateStats(validationLogs)
    IN  /\ CountsAndCommonError(validationLogs, stats)
        /\ stats.total > 0 =>
              stats.successRate = Rounded(100 * stats.valid, stats.total)

\* All of it but the rounding: the success rate is within one of the rounded
\* percentage
StatsUpToRounding ==
    LET stats == calculateStats(validationLogs)
    IN  /\ CountsAndCommonError(validationLogs, stats)
        /\ stats.total > 0 =>
              /\ stats.successRate <= Rounded(100 * stats.valid, stats.total)
              /\ stats.successRate >= Rounded(100 * stats.valid, stats.total) - 1

\* 23 of 40 entries are valid and the success rate shown is 57
SuccessRateRoundedDown ==
    LET stats == calculateStats(validationLogs)
    IN  /\ stats.total = 40
        /\ stats.valid = 23
        /\ stats.successRate = 57

\* The stored copy: what a mount would load from localStorage
StoredCopy == LoadEffect(localStorage)

\* C21: validation logs persist across reloads: after a remount of the
\* ValidationProvider, once the mount effects have run, validationLogs and
\* nextId equal their values before the reload, and the stored copy in
\* localStorage equals them as well; after clearLogs the state and the stored
\* copy hold no log entries and nextId is 1.
C21_LogsPersist ==
    [][ /\ Remount =>
              /\ validationLogs' = validationLogs
              /\ nextId' = nextId
        /\ ClearLogs =>
              /\ validationLogs' = <<>>
              /\ nextId' = 1
        /\ localStorage'.validation_logs.present
        /\ localStorage'.validation_next_id.present
        /\ StoredCopy'.validationLogs = validationLogs'
        /\ StoredCopy'.nextId = nextId'
      ]_vars

\* The page has been reloaded over a log with sample entries and the entry of
\* a valid validation, which is stored without an error_type: the loaded
\* state holds them all and the ids go on from 12
C21_Witness ==
    /\ Len(validationLogs) = 11
    /\ nextId = 12
    /\ \E k \in DOMAIN validationLogs : validationLogs[k].user_session = SessionId
    /\ validationForm = NoForm
    /\ history.reloads = 1
    /\ history.returned = 1
    /\ Len(localStorage.validation_logs.text) = 11
    /\ \E k \in 1..11 : "error_type" \notin DOMAIN localStorage.validation_logs.text[k]
    /\ \E k \in 1..11 : "error_type" \in DOMAIN localStorage.validation_logs.text[k]

\* The state of the APIProvider a call can change, history left aside
ApiState(a) == <<a.loading, a.error, a.grammar, a.examples, a.calls>>

\* A call of loadGrammar once a grammar is stored, and of loadExamples once
\* examples are stored, issues no request and leaves the provider as it is
LaterCallsReturnAtOnce ==
    [][ /\ (loadGrammar /\ api.grammar # "null") => ApiState(api') = ApiState(api)
        /\ (loadExamples /\ Len(api.examples) > 0) => ApiState(api') = ApiState(api)
      ]_vars

\* At most one grammar fetch succeeds
GrammarFetchedOnce == api.fetched.grammar <= 1

\* At most one fetch of a non-empty examples list succeeds
ExamplesFetchedOnce == api.fetched.examples <= 1

\* C22 as stated: after loadGrammar has stored a grammar, every later
\* loadGrammar call returns without issuing an API request and leaves loading,
\* error and grammar unchanged; likewise loadExamples once a non-empty
\* examples list has been stored; so over any sequence of calls at most one
\* successful grammar fetch and one successful examples fetch happen.
C22_FetchedOnce ==
    [][ /\ (loadGrammar /\ api.grammar # "null") => ApiState(api') = ApiState(api)
        /\ (loadExamples /\ Len(api.examples) > 0) => ApiState(api') = ApiState(api)
        /\ api'.fetched.grammar <= 1
        /\ api'.fetched.examples <= 1
      ]_vars

\* A grammar is stored, a later call of loadGrammar has returned at once, and
\* no second fetch has happened
LaterCallReturned ==
    /\ api.grammar # "null"
    /\ api.fetched.grammar = 1
    /\ api.started = 2
    /\ api.calls = <<>>

\* The loading-tracked calls that have started and not yet completed: those
\* made directly and the validateRequest calls of the form
TrackedInFlight ==
    Cardinality({i \in DOMAIN api.calls : api.calls[i] \in TrackedCalls})
        + Len(validationForm.inflight)

\* C25 as stated: the shared loading flag of the APIProvider reflects
\* in-flight work: at every moment loading is true if at least one
\* loading-tracked API call has started and not yet completed, and it is
\* false once none is in flight, for every interleaving of overlapping calls.
C25_LoadingReflectsInFlight == api.loading <=> TrackedInFlight > 0

\* The half that holds: loading is false once no tracked call is in flight
LoadingOnlyWhileInFlight == api.loading => TrackedInFlight > 0

\* Of two overlapping tracked calls one has completed, and loading is false
\* while the other is in flight
LoadingDroppedEarly ==
    /\ ~api.loading
    /\ Len(api.calls) = 1
    /\ api.calls[1] \in TrackedCalls

\* C23 as stated: after any sequence of addValidationLog, addSampleData and
\* clearLogs, including validations that overlap in time, all entries of
\* validationLogs have pairwise distinct ids, and nextId is strictly greater
\* than every id in the list.
C23_DistinctIds ==
    /\ \A j, k \in DOMAIN validationLogs :
          j # k => validationLogs[j].id # validationLogs[k].id
    /\ \A k \in DOMAIN validationLogs : validationLogs[k].id < nextId

\* Two overlapping validations have both been logged with the id 1
SameIdTwice ==
    /\ Len(validationLogs) = 2
    /\ validationLogs[1].id = 1
    /\ validationLogs[2].id = 1
    /\ nextId = 3

\* A validation in flight has completed, with a result or with null
ValidationCompleted == Len(validationForm'.inflight) < Len(validationForm.inflight)

\* C24 as stated: for one ValidationForm at most one validation request is in
\* flight at any time: while isValidating is true no further call of
\* validateRequest is started, whether validation is triggered by the
\* Validate button or by Ctrl+Enter, and isValidating returns to false once
\* the started request has completed.
C24_OneInFlight ==
    [][ /\ Len(validationForm'.inflight) <= 1
        /\ validationForm.isValidating =>
              Len(validationForm'.inflight) <= Len(validationForm.inflight)
        /\ ValidationCompleted => ~validationForm'.isValidating
      ]_vars

\* What holds of it: the button starts no validation while isValidating, and
\* isValidating is false after every completion
ButtonWaitsAndFlagReturns ==
    [][ /\ \A l \in FormLines : FormSubmit(l, "button") => ~validationForm.isValidating
        /\ ValidationCompleted => ~validationForm'.isValidating
      ]_vars

\* Two validations of the form are in flight
TwoInFlight == Len(validationForm.inflight) = 2

\* The form shows isValidating false while a validation is in flight
IdleWhileInFlight ==
    /\ ~validationForm.isValidating
    /\ Len(validationForm.inflight) = 1

\* A result is returned to the i-th validation in flight
ResultReturned(i) == \E ms \in ResponseTimes : FormReceive(i, ms)

\* C26 as stated: the request_line stored in a validation log entry is
\* exactly the string that was sent to the validator and to which the logged
\* verdict applies, for every input the form accepts, including inputs with
\* leading or trailing whitespace.
C26_LoggedLineIsSentLine ==
    [][ \A i \in 1..MaxInFlight :
           ResultReturned(i) =>
              /\ Head(validationLogs').request_line = validationForm.inflight[i].line
              /\ Head(validationLogs').request_line = result'.request_line
              /\ Head(validationLogs').is_valid = result'.is_valid
      ]_vars

\* What holds of it: the entry stores the input as typed, whose trimmed form
\* is the string sent, and the verdict of that string
LoggedLineIsInputTyped ==
    [][ \A i \in 1..MaxInFlight :
           ResultReturned(i) =>
              /\ Head(validationLogs').request_line = validationForm.inflight[i].input
              /\ Strip(Head(validationLogs').request_line) = validationForm.inflight[i].line
              /\ Head(validationLogs').is_valid = result'.is_valid
      ]_vars

\* A valid entry whose request_line begins with a space
LoggedWithWhitespace ==
    /\ validationLogs # <<>>
    /\ validationLogs[1].request_line = LeadingSpaceLine
    /\ validationLogs[1].is_valid
    /\ result.request_line = ValidIndexLine


====
